---- MODULE Spec2Model ----
(***************************************************************************)
(* Model of the retrieval-and-grounding evaluation pipeline of             *)
(* graph-rag-recipes: similarity scoring (retrieval/jaccard.py), the two   *)
(* retrievers (retrieval/cc_retrieval.py, retrieval/grounded_retrieval.py) *)
(* and the violation checkers (evaluation/grounded_checker.py,             *)
(* evaluation/hallucination_checker.py).                                   *)
(*                                                                         *)
(* Python strings are TLA+ strings; str.lower, str.strip, str.split and    *)
(* the `in` substring test are computed character by character.  Python    *)
(* floats that are quotients of small integers are exact rationals         *)
(* <<numerator, denominator>> in lowest terms with a positive denominator. *)
(***************************************************************************)
EXTENDS Integers, Sequences, FiniteSets, TLC

VARIABLES
    \* one call of the similarity scorer (retrieval/jaccard.py)
    sim_pc, recipe1, recipe2, ingredients1, ingredients2, alpha, sim_result,
    \* one call of a retriever (retrieval/cc_retrieval.py, retrieval/grounded_retrieval.py)
    ret_pc,             \* where the call stands
    mode,               \* "id": retrieve_similar, "object": retrieve_similar_recipes
    query,              \* the query recipe id ("id") or the query recipe ("object")
    recipes,            \* the corpus, a list of recipes
    top_k,
    query_recipe,       \* <<>> for None, <<r>> once found
    query_ingredients,
    idx,                \* position of the scoring loop in the corpus
    scores,             \* the list of scored candidates
    ret_result,         \* the list returned
    ret_error,          \* <<>>, or the exception raised
    \* one call of a violation checker (evaluation/*.py)
    chk_op,             \* the function called
    chk_pc,             \* where the call stands
    ingredient_arg,     \* the string given to normalize_ingredient
    source_recipes,     \* the recipes given to evaluate_hallucinations
    text,               \* the generated recipe text
    constraint,         \* the constraint's name (hallucination checker)
    forbidden,          \* forbidden_ingredients (hallucination checker)
    extracted,          \* the extracted ingredient list
    allowed,            \* the allowed ingredient set
    use_lemma,          \* <<>> for None, <<TRUE>>, <<FALSE>>
    USE_LEMMATIZATION,  \* the process-wide toggle
    nlp,                \* the lazily loaded model handle: "None" or "loaded"
    lemmatizer,         \* what the loaded model answers: token -> lemma
    constraint_result,
    grounding_result,
    chk_result,         \* what the call returned
    calls,              \* how often evaluate_grounded has called each callee
    \* one call of extract_ingredients_from_text (evaluation/grounded_checker.py)
    ext_pc,             \* where the call stands
    ext_text,           \* the text argument
    parser,             \* how parse_ingredient behaves
    ingredients_section,\* <<>> for no match, <<group(1)>> for a match
    lines,              \* the lines parse_line is called on
    line_no,            \* the line the loop is at
    ext_acc,            \* ingredients and seen, and what passed through the parser
    ext_result,         \* <<>>, or <<the list returned>>
    \* one run of the ablation driver (run_exp_grounded_ablation.py)
    drv_pc,             \* where the run stands
    test_bases,         \* the test examples
    corpus,             \* the recipes retrieved from
    drv_top_k,          \* top_k of the run
    example,            \* i, the 1-based position of the example at hand
    retrieved,          \* the (recipe, score) pairs retrieved for it
    drv_allowed,        \* <<>>, or <<allowed, the set drawn from them>>
    requests,           \* every request sent to the text-generation service
    response,           \* <<>>, or <<the service's answer to the last request>>
    output_baseline,    \* <<>>, or <<what baseline_adapt returned>>
    output_grounded,    \* <<>>, or <<what grounded_adapt returned>>
    eval_baseline,      \* <<>>, or <<the evaluation of output_baseline>>
    eval_grounded,      \* <<>>, or <<the evaluation of output_grounded>>
    results,            \* the result list
    summary,            \* <<>> for None, or <<the summary>>
    sink,               \* the objects written to the results directory
    \* one process calling the checker again and again
    loads,              \* how often spacy.load has returned a model
    call_log,           \* the calls made so far, oldest first
    \* the examples worked on side by side
    par_pc,             \* where each worker stands
    par_base,           \* each worker's example
    service,            \* the text-generation service: prompt -> response
    par_retrieved,      \* each worker's retrieval result
    par_output,         \* each worker's outputs: <<>>, or <<text>>, per strategy
    par_eval,           \* each worker's evaluations, per strategy
    par_record,         \* each worker's record: <<>>, or <<record>>
    \* one call of compute_summary (run_exp_grounded_ablation.py)
    sum_pc,             \* where the call stands
    sum_records,        \* the list of records given
    sum_result,         \* what the call returned: <<>> for None
    \* one call of check_graph_structure (validate_recipes.py)
    val_pc,             \* where the call stands
    val_recipe,         \* the recipe given
    val_issues          \* the list of issues returned

sim_vars == <<sim_pc, recipe1, recipe2, ingredients1, ingredients2, alpha, sim_result>>

ret_vars == <<ret_pc, mode, query, recipes, top_k, query_recipe, query_ingredients,
              idx, scores, ret_result, ret_error>>

chk_vars == <<chk_op, chk_pc, ingredient_arg, source_recipes, text, constraint, forbidden, extracted, allowed, use_lemma,
              USE_LEMMATIZATION, nlp, lemmatizer, constraint_result, grounding_result,
              chk_result, calls>>

ext_vars == <<ext_pc, ext_text, parser, ingredients_section, lines, line_no, ext_acc,
              ext_result>>

drv_vars == <<drv_pc, test_bases, corpus, drv_top_k, example, retrieved, drv_allowed, requests,
              response, output_baseline, output_grounded, eval_baseline, eval_grounded,
              results, summary, sink>>

lazy_vars == <<loads, call_log>>

par_vars == <<par_pc, par_base, service, par_retrieved, par_output, par_eval, par_record>>

sum_vars == <<sum_pc, sum_records, sum_result>>

val_vars == <<val_pc, val_recipe, val_issues>>

vars == <<sim_vars, ret_vars, chk_vars, ext_vars, drv_vars, lazy_vars, par_vars, sum_vars, val_vars>>

-----------------------------------------------------------------------------
(* Python built-ins used by the code *)

Min(a, b) == IF a <= b THEN a ELSE b

UpperLetters == "ABCDEFGHIJKLMNOPQRSTUVWXYZ"

LowerLetters == "abcdefghijklmnopqrstuvwxyz"

\* str.split() and str.strip() without arguments act on these characters
Whitespace == {" ", "\n", "\t"}

CharAt(s, i) == SubSeq(s, i, i)

\* one character of str.lower()
LowerChar(c) ==
    IF \E i \in 1..Len(UpperLetters) : CharAt(UpperLetters, i) = c
    THEN CharAt(LowerLetters, CHOOSE i \in 1..Len(UpperLetters) : CharAt(UpperLetters, i) = c)
    ELSE c

RECURSIVE StrLower(_)
\* str.lower()
StrLower(s) ==
    IF Len(s) = 0 THEN ""
    ELSE LowerChar(CharAt(s, 1)) \o StrLower(SubSeq(s, 2, Len(s)))

\* str.strip(): drop the leading and the trailing whitespace
StrStrip(s) ==
    LET inked == {i \in 1..Len(s) : CharAt(s, i) \notin Whitespace}
    IN  IF inked = {} THEN ""
        ELSE SubSeq(s, CHOOSE i \in inked : \A j \in inked : i <= j,
                       CHOOSE i \in inked : \A j \in inked : j <= i)

RECURSIVE SplitFrom(_, _, _)
\* the words of s from position i on, cur being the word read so far
SplitFrom(s, i, cur) ==
    IF i > Len(s) THEN (IF cur = "" THEN <<>> ELSE <<cur>>)
    ELSE IF CharAt(s, i) \in Whitespace
         THEN (IF cur = "" THEN <<>> ELSE <<cur>>) \o SplitFrom(s, i + 1, "")
         ELSE SplitFrom(s, i + 1, cur \o CharAt(s, i))

\* str.split(): the maximal runs of non-whitespace, in order
StrSplit(s) == SplitFrom(s, 1, "")

\* the Python test `sub in s` on strings
StrContains(s, sub) ==
    \E i \in 0..(Len(s) - Len(sub)) : SubSeq(s, i + 1, i + Len(sub)) = sub

Range(f) == {f[i] : i \in DOMAIN f}

\* dict.get(key, default) on a record
Get(r, key, default) == IF key \in DOMAIN r THEN r[key] ELSE default

-----------------------------------------------------------------------------
(* Exact rationals standing for the float scores *)

Abs(n) == IF n < 0 THEN -n ELSE n

RECURSIVE GCD(_, _)
GCD(a, b) == IF b = 0 THEN a ELSE GCD(b, a % b)

\* n/d in lowest terms, d > 0
Rat(n, d) ==
    LET g == GCD(Abs(n), Abs(d))
        s == IF d < 0 THEN -1 ELSE 1
    IN  <<(s * n) \div g, (s * d) \div g>>

RatAdd(p, q) == Rat(p[1] * q[2] + q[1] * p[2], p[2] * q[2])

RatSub(p, q) == Rat(p[1] * q[2] - q[1] * p[2], p[2] * q[2])

RatMul(p, q) == Rat(p[1] * q[1], p[2] * q[2])

RatLeq(p, q) == p[1] * q[2] <= q[1] * p[2]

RatLess(p, q) == p[1] * q[2] < q[1] * p[2]

Zero == <<0, 1>>

One == <<1, 1>>

InUnitInterval(p) == RatLeq(Zero, p) /\ RatLeq(p, One)

-----------------------------------------------------------------------------
(* retrieval/jaccard.py *)

\* mutant: the guard for two empty sets dropped and the union never empty-checked
jaccard_similarity_noguard(set1, set2) ==
    <<Cardinality(set1 \cap set2), Cardinality(set1 \cup set2)>>

jaccard_similarity(set1, set2) ==
    IF set1 = {} /\ set2 = {} THEN Zero
    ELSE LET intersection == set1 \cap set2
             union == set1 \cup set2
         IN  IF union # {} THEN Rat(Cardinality(intersection), Cardinality(union))
             ELSE Zero

name_jaccard(name1, name2) ==
    LET words1 == Range(StrSplit(StrLower(name1)))
        words2 == Range(StrSplit(StrLower(name2)))
    IN  jaccard_similarity(words1, words2)

\* mutant: the two weights swapped
combined_similarity_swapped(r1, r2, ingr1, ingr2, a) ==
    LET ingr_sim == jaccard_similarity(ingr1, ingr2)
        name_sim == name_jaccard(Get(r1, "name", ""), Get(r2, "name", ""))
    IN  RatAdd(RatMul(RatSub(One, a), ingr_sim), RatMul(a, name_sim))

combined_similarity(r1, r2, ingr1, ingr2, a) ==
    LET ingr_sim == jaccard_similarity(ingr1, ingr2)
        name_sim == name_jaccard(Get(r1, "name", ""), Get(r2, "name", ""))
    IN  RatAdd(RatMul(a, ingr_sim), RatMul(RatSub(One, a), name_sim))

-----------------------------------------------------------------------------
(* Inputs of the similarity scorer *)

\* largest ingredient set handed to the scorer
MaxSetSize == 2

IngredientPool == {"chicken", "curry powder", "onion", "chickpeas"}

IngredientSets == {s \in SUBSET IngredientPool : Cardinality(s) <= MaxSetSize}

NamePool == {"Chicken Curry", "Chickpea Curry", "chicken  curry", "Curry", ""}

\* recipes as the scorer sees them: a dict that has a name, or has none
SimRecipes == {[name |-> n] : n \in NamePool} \cup {[id |-> "recipe_001"]}

\* weights tried, 3/2 being one outside [0, 1]
Alphas == {Zero, <<2, 5>>, <<1, 2>>, One, <<3, 2>>}

NoResult == <<>>

SimIdle ==
    /\ sim_pc = "idle"
    /\ recipe1 = [name |-> ""]
    /\ recipe2 = [name |-> ""]
    /\ ingredients1 = {}
    /\ ingredients2 = {}
    /\ alpha = Zero
    /\ sim_result = NoResult

SimInit ==
    /\ sim_pc = "call"
    /\ recipe1 \in SimRecipes
    /\ recipe2 \in SimRecipes
    /\ ingredients1 \in IngredientSets
    /\ ingredients2 \in IngredientSets
    /\ alpha \in Alphas
    /\ sim_result = NoResult

\* jaccard_similarity(ingredients1, ingredients2)
CallJaccard ==
    /\ sim_pc = "call"
    /\ sim_pc' = "jaccard"
    /\ sim_result' = jaccard_similarity(ingredients1, ingredients2)
    /\ UNCHANGED <<recipe1, recipe2, ingredients1, ingredients2, alpha>>

\* name_jaccard(recipe1["name"], recipe2["name"])
CallNameJaccard ==
    /\ sim_pc = "call"
    /\ sim_pc' = "name_jaccard"
    /\ sim_result' = name_jaccard(Get(recipe1, "name", ""), Get(recipe2, "name", ""))
    /\ UNCHANGED <<recipe1, recipe2, ingredients1, ingredients2, alpha>>

\* combined_similarity(recipe1, recipe2, ingredients1, ingredients2, alpha)
CallCombined ==
    /\ sim_pc = "call"
    /\ sim_pc' = "combined"
    /\ sim_result' = combined_similarity(recipe1, recipe2, ingredients1, ingredients2, alpha)
    /\ UNCHANGED <<recipe1, recipe2, ingredients1, ingredients2, alpha>>

-----------------------------------------------------------------------------
(* utils/recipe_utils.py *)

\* get_ingredients: the lowercased ingredient names of either recipe shape
get_ingredients(recipe) ==
    IF "graph" \in DOMAIN recipe
    THEN {StrLower(ing.name) : ing \in Range(recipe.graph.ingredients)}
    ELSE IF "ingredients" \in DOMAIN recipe
         THEN {StrLower(ing) : ing \in Range(recipe.ingredients)}
         ELSE {}

-----------------------------------------------------------------------------
(* retrieval/cc_retrieval.py and retrieval/grounded_retrieval.py *)

\* weight of the ingredient similarity in object mode, 0.4
ALPHA == <<2, 5>>

\* recipe.get("name"), <<>> standing for None
NameOf(recipe) == IF "name" \in DOMAIN recipe THEN <<recipe.name>> ELSE <<>>

\* mutant: the lookup falls back to the first recipe when the id is absent
FindQuery_fallback(recipe_id, rs) ==
    LET hits == {i \in 1..Len(rs) : rs[i].id = recipe_id}
    IN  IF hits = {} THEN (IF rs = <<>> THEN <<>> ELSE <<rs[1]>>)
        ELSE <<rs[CHOOSE i \in hits : \A j \in hits : i <= j]>>

\* the lookup loop of retrieve_similar: the first recipe bearing the id, or None
FindQuery(recipe_id, rs) ==
    LET hits == {i \in 1..Len(rs) : rs[i].id = recipe_id}
    IN  IF hits = {} THEN <<>>
        ELSE <<rs[CHOOSE i \in hits : \A j \in hits : i <= j]>>

\* mutant: nothing is recognised as the query itself
IsSelf_never(m, q, recipe) == FALSE

\* the `continue` test of the scoring loops
IsSelf(m, q, recipe) ==
    IF m = "id" THEN recipe.id = q
    ELSE NameOf(recipe) = NameOf(q)

\* mutant: object mode scored with the plain ingredient Jaccard too
ScoreOf_plain(m, q, q_ingredients, recipe) ==
    jaccard_similarity(q_ingredients, get_ingredients(recipe))

\* the score given to one candidate
ScoreOf(m, q, q_ingredients, recipe) ==
    IF m = "id"
    THEN jaccard_similarity(q_ingredients, get_ingredients(recipe))
    ELSE combined_similarity(q, recipe, q_ingredients, get_ingredients(recipe), ALPHA)

\* one element of `scores`: (recipe id, score) in id mode, (recipe, score) in
\* object mode; pos records the corpus position the candidate came from
Candidate(m, recipe, score, i) ==
    [item |-> IF m = "id" THEN <<recipe.id>> ELSE <<recipe>>, score |-> score, pos |-> i]

RECURSIVE InsertDesc(_, _)
\* e placed after every element whose score is not smaller than its own
InsertDesc(sorted, e) ==
    IF sorted = <<>> THEN <<e>>
    ELSE IF RatLess(Head(sorted).score, e.score) THEN <<e>> \o sorted
         ELSE <<Head(sorted)>> \o InsertDesc(Tail(sorted), e)

RECURSIVE InsertDescFront(_, _)
\* e placed before every element whose score is not larger than its own
InsertDescFront(sorted, e) ==
    IF sorted = <<>> THEN <<e>>
    ELSE IF RatLeq(Head(sorted).score, e.score) THEN <<e>> \o sorted
         ELSE <<Head(sorted)>> \o InsertDescFront(Tail(sorted), e)

RECURSIVE SortDescReversedTies(_)
\* mutant: what sorting ascending and reversing the list would give
SortDescReversedTies(list) ==
    IF list = <<>> THEN <<>>
    ELSE InsertDescFront(SortDescReversedTies(SubSeq(list, 1, Len(list) - 1)), list[Len(list)])

RECURSIVE SortDesc(_)
\* list.sort(key=score, reverse=True): by score descending, stable
SortDesc(list) ==
    IF list = <<>> THEN <<>>
    ELSE InsertDesc(SortDesc(SubSeq(list, 1, Len(list) - 1)), list[Len(list)])

\* mutant: one entry more than asked for
Slice_offbyone(list, k) == SubSeq(list, 1, Min(k + 1, Len(list)))

\* list[:k] for k >= 0
Slice(list, k) == SubSeq(list, 1, Min(k, Len(list)))

-----------------------------------------------------------------------------
(* Inputs of the retrievers *)

\* longest corpus
MaxCorpus == 3

\* largest top_k asked for
MaxTopK == 4

Graph(names) == [ingredients |-> [i \in 1..Len(names) |-> [id |-> "ing", name |-> names[i]]]]

\* the toy shape, retrieved by id
ToyRecipes == {
    [id |-> "recipe_001", name |-> "Chicken Curry",
     graph |-> Graph(<<"chicken", "curry powder", "onion">>)],
    [id |-> "recipe_002", name |-> "Chickpea Curry",
     graph |-> Graph(<<"chickpeas", "Curry Powder", "onion">>)],
    [id |-> "recipe_003", name |-> "Tofu Curry",
     graph |-> Graph(<<"tofu", "curry powder", "Onion">>)],
    [id |-> "recipe_004", name |-> "Onion Soup",
     graph |-> Graph(<<"onion", "water">>)] }

QueryIds == {"recipe_001", "recipe_004", "recipe_999"}

\* the flat shape, retrieved by object
FlatRecipes == {
    [name |-> "Chicken Curry", ingredients |-> <<"chicken", "curry powder", "onion">>],
    [name |-> "Chickpea Curry", ingredients |-> <<"chickpeas", "curry powder", "onion">>],
    [name |-> "Tofu Curry", ingredients |-> <<"Tofu", "Curry Powder", "Onion">>],
    [name |-> "chicken curry", ingredients |-> <<"chicken">>],
    [name |-> "Curry"] }

QueryRecipes == {
    [name |-> "Chicken Curry", ingredients |-> <<"chicken", "curry powder", "onion">>],
    [name |-> "Curry"] }

RECURSIVE Lists(_, _)
\* the lists over S of length at most n
Lists(S, n) ==
    IF n = 0 THEN {<<>>}
    ELSE LET shorter == Lists(S, n - 1)
         IN  shorter \cup {Append(l, x) : l \in shorter, x \in S}

\* the toy corpora: every recipe has its own id
ToyCorpora == {l \in Lists(ToyRecipes, MaxCorpus) :
                  \A i, j \in 1..Len(l) : i # j => l[i].id # l[j].id}

\* the flat corpora: names may repeat, and so may whole recipes
FlatCorpora == Lists(FlatRecipes, MaxCorpus)

RetIdle ==
    /\ ret_pc = "idle"
    /\ mode = "id"
    /\ query = ""
    /\ recipes = <<>>
    /\ top_k = 0
    /\ query_recipe = <<>>
    /\ query_ingredients = {}
    /\ idx = 0
    /\ scores = <<>>
    /\ ret_result = <<>>
    /\ ret_error = <<>>

RetInit ==
    /\ ret_pc = "call"
    /\ \/ mode = "id" /\ query \in QueryIds /\ recipes \in ToyCorpora
       \/ mode = "object" /\ query \in QueryRecipes /\ recipes \in FlatCorpora
    /\ top_k \in 0..MaxTopK
    /\ query_recipe = <<>>
    /\ query_ingredients = {}
    /\ idx = 0
    /\ scores = <<>>
    /\ ret_result = <<>>
    /\ ret_error = <<>>

\* retrieve_similar, lines 18-29: the lookup, the raise, the query's ingredients
Lookup ==
    /\ ret_pc = "call"
    /\ mode = "id"
    /\ LET found == FindQuery(query, recipes)
       IN  IF found = <<>>
           THEN /\ ret_pc' = "raised"
                /\ ret_error' = <<"ValueError", "Recipe " \o query \o " not found">>
                /\ UNCHANGED <<query_recipe, query_ingredients, idx>>
           ELSE /\ ret_pc' = "score"
                /\ query_recipe' = found
                /\ query_ingredients' = get_ingredients(found[1])
                /\ idx' = 1
                /\ UNCHANGED ret_error
    /\ UNCHANGED <<mode, query, recipes, top_k, scores, ret_result>>

\* retrieve_similar_recipes, lines 27-29: the query's ingredients
Start ==
    /\ ret_pc = "call"
    /\ mode = "object"
    /\ ret_pc' = "score"
    /\ query_recipe' = <<query>>
    /\ query_ingredients' = get_ingredients(query)
    /\ idx' = 1
    /\ UNCHANGED <<mode, query, recipes, top_k, scores, ret_result, ret_error>>

\* one turn of the scoring loop that skips the query itself
SkipSelf ==
    /\ ret_pc = "score"
    /\ idx <= Len(recipes)
    /\ IsSelf(mode, query, recipes[idx])
    /\ idx' = idx + 1
    /\ UNCHANGED <<ret_pc, mode, query, recipes, top_k, query_recipe, query_ingredients,
                   scores, ret_result, ret_error>>

\* one turn of the scoring loop that scores a candidate
ScoreCandidate ==
    /\ ret_pc = "score"
    /\ idx <= Len(recipes)
    /\ ~IsSelf(mode, query, recipes[idx])
    /\ scores' = Append(scores,
                        Candidate(mode, recipes[idx],
                                  ScoreOf(mode, query_recipe[1], query_ingredients, recipes[idx]),
                                  idx))
    /\ idx' = idx + 1
    /\ UNCHANGED <<ret_pc, mode, query, recipes, top_k, query_recipe, query_ingredients,
                   ret_result, ret_error>>

\* after the loop: scores.sort(...); return scores[:top_k]
SortAndReturn ==
    /\ ret_pc = "score"
    /\ idx > Len(recipes)
    /\ scores' = SortDesc(scores)
    /\ ret_result' = Slice(scores', top_k)
    /\ ret_pc' = "done"
    /\ UNCHANGED <<mode, query, recipes, top_k, query_recipe, query_ingredients, idx, ret_error>>

-----------------------------------------------------------------------------
(* evaluation/grounded_checker.py and evaluation/hallucination_checker.py *)

MEAT_KEYWORDS == <<"chicken", "beef", "pork", "lamb", "turkey", "bacon",
                   "ham", "sausage", "meat", "steak", "veal", "duck",
                   "prosciutto", "salami", "pepperoni", "chorizo">>

RECURSIVE Join(_, _)
\* sep.join(words)
Join(words, sep) ==
    IF words = <<>> THEN ""
    ELSE IF Len(words) = 1 THEN words[1]
         ELSE words[1] \o sep \o Join(Tail(words), sep)

\* token.lemma_ as the loaded model lem answers it
LemmaOf(lem, token) == IF token \in DOMAIN lem THEN lem[token] ELSE token

\* mutant: the argument is ignored, the toggle decides
EffectiveLemma_toggle(flag, toggle) == toggle

\* the flag normalize_ingredient works with: the argument, or the toggle for None
EffectiveLemma(flag, toggle) == IF flag = <<>> THEN toggle ELSE flag[1]

\* mutant: the leading and trailing whitespace is kept
normalize_ingredient_nostrip(ingredient, lemma_on, lem) ==
    LET normalized == StrLower(ingredient)
    IN  IF lemma_on
        THEN LET doc == StrSplit(normalized)
             IN  Join([i \in 1..Len(doc) |-> LemmaOf(lem, doc[i])], " ")
        ELSE normalized

\* normalize_ingredient with its flag resolved: lowercase, strip, and with
\* lemmatization every token of the model's doc replaced by its lemma
normalize_ingredient(ingredient, lemma_on, lem) ==
    LET normalized == StrStrip(StrLower(ingredient))
    IN  IF lemma_on
        THEN LET doc == StrSplit(normalized)
             IN  Join([i \in 1..Len(doc) |-> LemmaOf(lem, doc[i])], " ")
        ELSE normalized

\* mutant: the set taken as it is given
normalize_ingredient_set_raw(ingredients, lemma_on, lem) == ingredients

\* {normalize_ingredient(ing, use_lemma) for ing in ingredients}
normalize_ingredient_set(ingredients, lemma_on, lem) ==
    {normalize_ingredient(ing, lemma_on, lem) : ing \in ingredients}

\* d[k] = v on a dict kept as its list of <<key, value>> items: a new key goes
\* last, an old key keeps its place and takes the new value
DictPut(d, k, v) ==
    IF \E i \in 1..Len(d) : d[i][1] = k
    THEN [i \in 1..Len(d) |-> IF d[i][1] = k THEN <<k, v>> ELSE d[i]]
    ELSE Append(d, <<k, v>>)

RECURSIVE NormDict(_, _, _)
\* {normalize_ingredient(ing, use_lemma): ing for ing in extracted_ingredients}
NormDict(ingredients, lemma_on, lem) ==
    IF ingredients = <<>> THEN <<>>
    ELSE LET n == Len(ingredients)
         IN  DictPut(NormDict(SubSeq(ingredients, 1, n - 1), lemma_on, lem),
                     normalize_ingredient(ingredients[n], lemma_on, lem),
                     ingredients[n])

RECURSIVE Filter(_, _)
\* the items of a dict's item list whose key is not in the set, by value
Filter(items, keys) ==
    IF items = <<>> THEN <<>>
    ELSE (IF Head(items)[1] \notin keys THEN <<Head(items)[2]>> ELSE <<>>)
             \o Filter(Tail(items), keys)

check_grounding_violations(extracted_ingredients, allowed_ingredients, lemma_on, lem) ==
    LET extracted_norm == NormDict(extracted_ingredients, lemma_on, lem)
        allowed_norm == normalize_ingredient_set(allowed_ingredients, lemma_on, lem)
        novel == Filter(extracted_norm, allowed_norm)
    IN  [violated |-> Len(novel) > 0,
         novel_ingredients |-> novel,
         count |-> Len(novel),
         extracted_count |-> Len(extracted_ingredients)]

RECURSIVE FoundIn(_, _)
\* the keywords of the list that occur in the string, in list order
FoundIn(keywords, haystack) ==
    IF keywords = <<>> THEN <<>>
    ELSE (IF StrContains(haystack, Head(keywords)) THEN <<Head(keywords)>> ELSE <<>>)
             \o FoundIn(Tail(keywords), haystack)

\* mutant: the text searched as written, not lowercased
check_constraint_violations_cased(t) ==
    LET found_meat == FoundIn(MEAT_KEYWORDS, t)
    IN  [violated |-> Len(found_meat) > 0, violations |-> found_meat,
         count |-> Len(found_meat)]

\* grounded_checker.check_constraint_violations
check_constraint_violations(t) ==
    LET text_lower == StrLower(t)
        found_meat == FoundIn(MEAT_KEYWORDS, text_lower)
    IN  [violated |-> Len(found_meat) > 0, violations |-> found_meat,
         count |-> Len(found_meat)]

\* hallucination_checker.check_constraint_violation
check_constraint_violation(adapted_text, c, forbidden_ingredients) ==
    LET adapted_lower == StrLower(adapted_text)
        found_forbidden == FoundIn(forbidden_ingredients, adapted_lower)
    IN  IF found_forbidden # <<>>
        THEN [violated |-> TRUE, violations |-> found_forbidden,
              message |-> "Constraint '" \o c \o "' violated: found "
                              \o Join(found_forbidden, ", ")]
        ELSE [violated |-> FALSE, violations |-> <<>>,
              message |-> "Constraint '" \o c \o "' satisfied"]

\* evaluate_hallucinations, lines 107-118: what the constraint forbids
ForbiddenFor(c) ==
    IF c = "vegetarian"
    THEN <<"chicken", "beef", "pork", "lamb", "fish", "shrimp", "meat">>
    ELSE <<>>

\* evaluate_hallucinations, lines 107-118: allowed_subs, forbidden -> substitutes
AllowedSubsFor(c) ==
    IF c = "vegetarian"
    THEN [chicken |-> <<"chickpeas", "tofu", "tempeh">>,
          beef |-> <<"black beans", "lentils", "mushrooms">>,
          pork |-> <<"tempeh", "jackfruit">>,
          lamb |-> <<"lentils", "beans">>,
          fish |-> <<"tofu", "tempeh">>,
          shrimp |-> <<"tofu", "mushrooms">>]
    ELSE <<>>

\* evaluate_hallucinations, lines 121-125: source_ingredients
SourceIngredients(rs) ==
    UNION {{StrLower(ing.name) : ing \in Range(r.graph.ingredients)} : r \in Range(rs)}

\* mutant: the substitutes are not counted as valid ingredients
Mentioned_sourceonly(adapted_text, source_ingredients, allowed_substitutions) ==
    {ing \in source_ingredients : StrContains(StrLower(adapted_text), ing)}

\* check_ingredient_consistency, lines 59-70: the valid ingredients mentioned
Mentioned(adapted_text, source_ingredients, allowed_substitutions) ==
    LET adapted_lower == StrLower(adapted_text)
        valid_ingredients == source_ingredients
            \cup UNION {Range(substitution_list) :
                            substitution_list \in Range(allowed_substitutions)}
    IN  {ing \in valid_ingredients : StrContains(adapted_lower, ing)}

\* the orders in which a Python set may be iterated
Orderings(S) == {f \in [1..Cardinality(S) -> S] : Range(f) = S}

\* check_ingredient_consistency, lines 75-86, mentioned being the list the
\* comprehension over the set valid_ingredients gave
check_ingredient_consistency(mentioned) ==
    IF mentioned # <<>>
    THEN [consistent |-> TRUE, unexpected_ingredients |-> <<>>,
          message |-> "Recipe uses valid ingredients: "
                          \o Join(SubSeq(mentioned, 1, Min(5, Len(mentioned))), ", ")]
    ELSE [consistent |-> FALSE, unexpected_ingredients |-> <<>>,
          message |-> "No recognized ingredients from source recipes found"]

\* evaluate_hallucinations, lines 128-140
evaluate_hallucinations(adapted_text, c, rs, mentioned) ==
    LET constraint_check == check_constraint_violation(adapted_text, c, ForbiddenFor(c))
        consistency_check == check_ingredient_consistency(mentioned)
    IN  [constraint_violation |-> constraint_check,
         ingredient_consistency |-> consistency_check,
         has_hallucination |-> constraint_check.violated \/ ~consistency_check.consistent]

\* mutant: a recipe counts as valid only if it is grounded too
OverallValid_grounded(c_result, g_result) == ~c_result.violated /\ ~g_result.violated

\* evaluate_grounded's "overall_valid"
OverallValid(c_result, g_result) == ~c_result.violated

\* _get_nlp() as normalize_ingredient reaches it: loaded by the first
\* normalization that lemmatizes
NlpAfter(handle, lemma_on, normalized_any) ==
    IF lemma_on /\ normalized_any THEN "loaded" ELSE handle

-----------------------------------------------------------------------------
(* evaluation/grounded_checker.py: extract_ingredients_from_text *)

\* the least element of a non-empty set of integers
Least(S) == CHOOSE x \in S : \A y \in S : x <= y

\* s.startswith(p, i - 1): p stands in s at position i
StartsAt(s, i, p) == i + Len(p) - 1 <= Len(s) /\ SubSeq(s, i, i + Len(p) - 1) = p

RECURSIVE StrRemove(_, _)
\* re.sub(pat, "", s) for a literal pat: leftmost occurrences, never overlapping
StrRemove(s, pat) ==
    LET found == {i \in 1..Len(s) : StartsAt(s, i, pat)}
    IN  IF found = {} THEN s
        ELSE SubSeq(s, 1, Least(found) - 1)
                 \o StrRemove(SubSeq(s, Least(found) + Len(pat), Len(s)), pat)

\* s.split(sep) for a one-character sep: empty pieces are kept
StrSplitOn(s, sep) ==
    LET cuts == {i \in 1..Len(s) : CharAt(s, i) = sep} \cup {0, Len(s) + 1}
        Next(i) == Least({j \in cuts : j > i})
        starts == cuts \ {Len(s) + 1}
        Nth(k) == CHOOSE i \in starts : Cardinality({j \in starts : j < i}) = k - 1
    IN  [k \in 1..Cardinality(starts) |-> SubSeq(s, Nth(k) + 1, Next(Nth(k)) - 1)]

\* the first position from i on whose character is not in cs (Len(s) + 1 if none)
SkipWhile(s, i, cs) ==
    Least({k \in i..(Len(s) + 1) : k = Len(s) + 1 \/ CharAt(s, k) \notin cs})

\* \d of the regular expressions
Digits == {"0", "1", "2", "3", "4", "5", "6", "7", "8", "9"}

GARBAGE_WORDS ==
    {"ingredients", "ingredient", "steps", "step", "instructions", "instruction",
     "directions", "direction", "method", "note", "notes", "tip", "tips",
     "serves", "serving", "servings", "yield", "prep",
     "saucepan", "pan", "pot", "bowl", "skillet", "oven", "baking sheet",
     "adapted", "recipe", "vegetarian", "vegan", "original"}

\* the four tests of add_ingredient on name.lower().strip()
Rejected(name_lower) ==
    \/ name_lower = ""
    \/ name_lower \in GARBAGE_WORDS
    \/ Len(name_lower) < 2
    \/ Len(StrSplit(name_lower)) > 4

\* mutant: no test against the phrases seen so far
add_ingredient_nodedup(acc, name) ==
    LET name_lower == StrStrip(StrLower(name))
    IN  IF Rejected(name_lower) THEN acc
        ELSE [acc EXCEPT !.seen = @ \cup {name_lower},
                         !.ingredients = Append(@, name)]

\* mutant: the garbage words are let through
add_ingredient_nogarbage(acc, name) ==
    LET name_lower == StrStrip(StrLower(name))
    IN  IF name_lower = "" \/ Len(name_lower) < 2 \/ Len(StrSplit(name_lower)) > 4
        THEN acc
        ELSE IF name_lower \in acc.seen THEN acc
             ELSE [acc EXCEPT !.seen = @ \cup {name_lower},
                              !.ingredients = Append(@, name)]

\* add_ingredient(name) on the closure's ingredients and seen
add_ingredient(acc, name) ==
    LET name_lower == StrStrip(StrLower(name))
    IN  IF Rejected(name_lower) THEN acc
        ELSE IF name_lower \in acc.seen THEN acc
             ELSE [acc EXCEPT !.seen = @ \cup {name_lower},
                              !.ingredients = Append(@, name)]

\* the characters of the bullet class [\d\.\-\*\[\]] (the texts here are ASCII)
BulletChars == Digits \cup {".", "-", "*", "[", "]"}

\* re.sub(r"^[\d\.\-\*\•\[\]]+\s*", "", line)
StripBullet(line) ==
    LET k == SkipWhile(line, 1, BulletChars)
    IN  IF k = 1 THEN line
        ELSE SubSeq(line, SkipWhile(line, k, Whitespace), Len(line))

instruction_starters ==
    {"cook", "bake", "mix", "stir", "add", "combine", "heat", "place",
     "pour", "serve", "let", "bring", "reduce", "simmer", "boil", "fry",
     "saute", "chop", "dice", "slice", "preheat", "set", "cover", "remove",
     "in", "the", "this", "you", "for", "with", "here", "note", "tip"}

\* parse_line up to the parser: <<>> for a line it drops, <<l>> for the
\* cleaned line l it hands to parse_ingredient
LineForParser(line) ==
    LET stripped == StrStrip(line)
        unbulleted == StripBullet(stripped)
    IN  IF stripped = "" \/ unbulleted = "" THEN <<>>
        ELSE IF CharAt(unbulleted, Len(unbulleted)) = ":" \/ CharAt(unbulleted, 1) = "#"
             THEN <<>>
             ELSE IF StrLower(StrSplit(unbulleted)[1]) \in instruction_starters
                  THEN <<>>
                  ELSE <<unbulleted>>

\* What parse_ingredient (the ingredient_parser package) makes of a cleaned
\* line is outside this code.  The model lets it be any of these behaviours,
\* the same one for a whole extraction:
\*   "whole"  the line is one name
\*   "tail"   the last word of the line is the name
\*   "parts"  every comma-separated piece is a name (pieces may be empty)
\*   "strict" a line that does not start with a capital letter or a digit
\*            raises, a one-word line has no name, otherwise as "tail"
Parsers == {"whole", "tail", "parts", "strict"}

\* parse_ingredient(line) under behaviour p: whether it raised, and the
\* texts of parsed.name
parse_ingredient(p, line) ==
    LET words == StrSplit(line)
        last == <<words[Len(words)]>>
    IN  CASE p = "whole" -> [raised |-> FALSE, name |-> <<line>>]
          [] p = "tail" -> [raised |-> FALSE, name |-> last]
          [] p = "parts" -> [raised |-> FALSE, name |-> StrSplitOn(line, ",")]
          [] p = "strict" ->
                 IF LowerChar(CharAt(line, 1)) = CharAt(line, 1)
                        /\ CharAt(line, 1) \notin Digits
                 THEN [raised |-> TRUE, name |-> <<>>]
                 ELSE [raised |-> FALSE,
                       name |-> IF Len(words) = 1 THEN <<>> ELSE last]

RECURSIVE AddAll(_, _)
\* for name_part in parsed.name: if name_part.text: add_ingredient(name_part.text)
AddAll(acc, names) ==
    IF names = <<>> THEN acc
    ELSE AddAll(IF Head(names) # "" THEN add_ingredient(acc, Head(names)) ELSE acc,
                Tail(names))

\* the name texts parse_line passes to add_ingredient
Emitted(names) == SelectSeq(names, LAMBDA n : n # "")

\* mutant: a parser exception throws away what was collected so far
parse_line_reset(acc, line, p) ==
    LET cleaned == LineForParser(line)
    IN  IF cleaned = <<>> THEN acc
        ELSE LET parsed == parse_ingredient(p, cleaned[1])
                 handed == [acc EXCEPT !.handed = Append(@, cleaned[1])]
             IN  IF parsed.raised
                 THEN [handed EXCEPT !.swallowed = @ + 1, !.ingredients = <<>>,
                                     !.seen = {}]
                 ELSE [AddAll(handed, parsed.name)
                          EXCEPT !.emitted = @ \o Emitted(parsed.name)]

\* parse_line(line) on the extraction's state acc: ingredients and seen of
\* the code, and on the side the lines handed to the parser, the names handed
\* to add_ingredient and the number of parser exceptions swallowed
parse_line(acc, line, p) ==
    LET cleaned == LineForParser(line)
    IN  IF cleaned = <<>> THEN acc
        ELSE LET parsed == parse_ingredient(p, cleaned[1])
                 handed == [acc EXCEPT !.handed = Append(@, cleaned[1])]
             IN  IF parsed.raised
                 THEN [handed EXCEPT !.swallowed = @ + 1]
                 ELSE [AddAll(handed, parsed.name)
                          EXCEPT !.emitted = @ \o Emitted(parsed.name)]

\* [Ii]ngredients?:?\s*\n tried at position i: 0 for no match, otherwise the
\* position after the match.  \s* is greedy, so the \n matched is the last
\* newline of the whitespace run after the header word
HeaderEnd(s, i) ==
    IF ~(StartsAt(s, i, "Ingredient") \/ StartsAt(s, i, "ingredient")) THEN 0
    ELSE LET a == i + 10
             b == IF StartsAt(s, a, "s") THEN a + 1 ELSE a
             c == IF StartsAt(s, b, ":") THEN b + 1 ELSE b
             d == SkipWhile(s, c, Whitespace)
             newlines == {k \in c..(d - 1) : CharAt(s, k) = "\n"}
         IN  IF newlines = {} THEN 0
             ELSE (CHOOSE k \in newlines : \A m \in newlines : m <= k) + 1

\* the header words that close the ingredient section, as the pattern
\* spells them: either case for the first letter only
SectionWords == {"Step", "step", "Instruction", "instruction",
                 "Direction", "direction", "Method", "method"}

\* (?:\n\s*[Ss]teps?:?|\n\s*[Ii]nstructions?:?|\n\s*[Dd]irections?:?|\n\s*[Mm]ethod:?|$)
\* matches at position j; without re.MULTILINE $ is the end of the string or
\* the place before a final newline
EndsSection(s, j) ==
    \/ j = Len(s) + 1
    \/ j = Len(s) /\ CharAt(s, j) = "\n"
    \/ /\ j <= Len(s)
       /\ CharAt(s, j) = "\n"
       /\ \E w \in SectionWords : StartsAt(s, SkipWhile(s, j + 1, Whitespace), w)

\* re.search(pattern, s, re.DOTALL): <<>> for None, otherwise <<group(1)>>,
\* for the leftmost header and the shortest body
SearchSection(s) ==
    LET headers == {i \in 1..Len(s) : HeaderEnd(s, i) # 0}
    IN  IF headers = {} THEN <<>>
        ELSE LET from == HeaderEnd(s, Least(headers))
                 to == Least({j \in from..(Len(s) + 1) : EndsSection(s, j)})
             IN  <<SubSeq(s, from, to - 1)>>

\* lines 134-135: the bold markers removed
CleanText(t) == StrRemove(StrRemove(t, "**"), "__")

\* lines 144-152: the lines parse_line is called on
LinesToParse(t) ==
    LET section == SearchSection(CleanText(t))
    IN  IF section # <<>>
        THEN StrSplitOn(section[1], "\n")
        ELSE StrSplitOn(CleanText(t), "\n")

NoIngredients ==
    [ingredients |-> <<>>, seen |-> {}, handed |-> <<>>, emitted |-> <<>>, swallowed |-> 0]

RECURSIVE ParseLines(_, _, _)
\* for line in lines: parse_line(line)
ParseLines(acc, ls, p) ==
    IF ls = <<>> THEN acc
    ELSE ParseLines(parse_line(acc, Head(ls), p), Tail(ls), p)

\* extract_ingredients_from_text(text), the parser behaving as p
extract_ingredients_from_text(t, p) ==
    ParseLines(NoIngredients, LinesToParse(t), p).ingredients

-----------------------------------------------------------------------------
(* generation/grounded_generation.py and run_exp_grounded_ablation.py *)

RECURSIVE IntToStr(_)
\* str(n), as an f-string formats a count
IntToStr(n) ==
    IF n < 10 THEN CharAt("0123456789", n + 1)
    ELSE IntToStr(n \div 10) \o CharAt("0123456789", (n % 10) + 1)

\* the printable ASCII characters in code-point order (quote, backslash and
\* backtick aside)
Ascii == " !#$%&'()*+,-./0123456789:;<=>?@ABCDEFGHIJKLMNOPQRSTUVWXYZ[]^_abcdefghijklmnopqrstuvwxyz{|}~"

\* a < b on Python strings: by the first differing character, else by length
StrLess(a, b) ==
    LET differ == {i \in 1..Min(Len(a), Len(b)) : CharAt(a, i) # CharAt(b, i)}
        Code(c) == CHOOSE i \in 1..Len(Ascii) : CharAt(Ascii, i) = c
    IN  IF differ = {} THEN Len(a) < Len(b)
        ELSE Code(CharAt(a, Least(differ))) < Code(CharAt(b, Least(differ)))

\* sorted(S) for a set of strings
Sorted(S) ==
    [k \in 1..Cardinality(S) |->
        CHOOSE x \in S : Cardinality({y \in S : StrLess(y, x)}) = k - 1]

\* mutant: the ingredients lowercased but not stripped
gen_extract_allowed_ingredients_nostrip(retrieved_recipes) ==
    UNION {{StrLower(ing) : ing \in Range(Get(recipe, "ingredients", <<>>))} :
               recipe \in Range(retrieved_recipes)}

\* grounded_generation.extract_allowed_ingredients: lowercased and stripped
gen_extract_allowed_ingredients(retrieved_recipes) ==
    UNION {{StrStrip(StrLower(ing)) : ing \in Range(Get(recipe, "ingredients", <<>>))} :
               recipe \in Range(retrieved_recipes)}

\* format_retrieved_context
format_retrieved_context(retrieved_recipes) ==
    Join([i \in 1..Len(retrieved_recipes) |->
             "Recipe " \o IntToStr(i) \o ": " \o retrieved_recipes[i].name \o "\n"
                 \o "Ingredients: " \o Join(retrieved_recipes[i].ingredients, ", ") \o "\n"
                 \o "Steps: " \o retrieved_recipes[i].steps \o "\n"],
         "\n")

\* format_query_recipe
format_query_recipe(query_recipe_) ==
    "Name: " \o query_recipe_.name \o "\n"
        \o "Ingredients: " \o Join(query_recipe_.ingredients, ", ") \o "\n"
        \o "Steps: " \o query_recipe_.steps

\* the prompt of baseline_adapt
BaselinePrompt(query_recipe_, retrieved_recipes, c) ==
    "You are a recipe adaptation assistant.\n\nORIGINAL RECIPE TO ADAPT:\n"
        \o format_query_recipe(query_recipe_)
        \o "\n\nSIMILAR RECIPES FOR INSPIRATION:\n"
        \o format_retrieved_context(retrieved_recipes)
        \o "\n\nTASK: Adapt the original recipe to be " \o c \o ".\n\n"
        \o "Generate the adapted recipe with:\n1. A list of ingredients\n"
        \o "2. Step-by-step instructions\n\nAdapted recipe:"

\* the prompt of grounded_adapt
GroundedPrompt(query_recipe_, retrieved_recipes, c) ==
    LET allowed_ingredients == gen_extract_allowed_ingredients(retrieved_recipes)
        allowed_list == Join(Sorted(allowed_ingredients), ", ")
    IN  "You are a recipe adaptation assistant with STRICT ingredient constraints.\n\n"
            \o "ORIGINAL RECIPE TO ADAPT:\n" \o format_query_recipe(query_recipe_)
            \o "\n\nSIMILAR RECIPES FOR REFERENCE:\n"
            \o format_retrieved_context(retrieved_recipes)
            \o "\n\nALLOWED INGREDIENTS (use ONLY these):\n" \o allowed_list
            \o "\n\nTASK: Adapt the original recipe to be " \o c \o ".\n\n"
            \o "CRITICAL RULES:\n"
            \o "- You MUST use only ingredients from the ALLOWED INGREDIENTS list above.\n"
            \o "- Do NOT introduce any new ingredients not in the list.\n"
            \o "- If an ingredient is needed but not in the list, find a substitute from the list or omit it.\n\n"
            \o "Generate the adapted recipe with:\n"
            \o "1. A list of ingredients (only from allowed list)\n"
            \o "2. Step-by-step instructions\n\nAdapted recipe:"

\* the request an adaptation sends: ollama.chat(model=..., messages=[...])
ChatRequest(strategy_, query_recipe_, retrieved_recipes, c, model) ==
    [model |-> model,
     messages |-> <<[role |-> "user",
                     content |-> IF strategy_ = "baseline"
                                 THEN BaselinePrompt(query_recipe_, retrieved_recipes, c)
                                 ELSE GroundedPrompt(query_recipe_, retrieved_recipes, c)]>>]

RECURSIVE ScoreFrom(_, _, _)
\* the scoring loop of retrieve_similar_recipes from corpus position i on
ScoreFrom(q, rs, i) ==
    IF i > Len(rs) THEN <<>>
    ELSE (IF IsSelf("object", q, rs[i]) THEN <<>>
          ELSE <<Candidate("object", rs[i],
                           ScoreOf("object", q, get_ingredients(q), rs[i]), i)>>)
             \o ScoreFrom(q, rs, i + 1)

\* mutant: the first k candidates in corpus order, sorted afterwards
retrieve_similar_recipes_cut_first(q, rs, k) == SortDesc(Slice(ScoreFrom(q, rs, 1), k))

\* grounded_retrieval.retrieve_similar_recipes(query_recipe, recipes, top_k)
retrieve_similar_recipes(q, rs, k) == Slice(SortDesc(ScoreFrom(q, rs, 1)), k)

\* mutant: the corpus itself put in score order
CorpusAfterRetrieval_sorted(q, rs, k) ==
    LET ranked == SortDesc(ScoreFrom(q, rs, 1))
    IN  [i \in 1..Len(ranked) |-> ranked[i].item[1]]

\* the corpus after retrieve_similar_recipes(q, rs, k): the loop only reads
\* the recipes, and the list sorted and sliced is the new list scores
CorpusAfterRetrieval(q, rs, k) == rs

\* grounded_retrieval.extract_allowed_ingredients(retrieved): the union of
\* get_ingredients over the (recipe, score) pairs
extract_allowed_ingredients(retrieved_) ==
    UNION {get_ingredients(retrieved_[i].item[1]) : i \in 1..Len(retrieved_)}

\* evaluate_grounded(text, allowed_ingredients) as one value
evaluate_grounded(t, allowed_ingredients, lemma_on, lem, p) ==
    LET extracted_ == extract_ingredients_from_text(t, p)
        constraint_result_ == check_constraint_violations(t)
        grounding_result_ == check_grounding_violations(extracted_, allowed_ingredients,
                                                        lemma_on, lem)
    IN  [extracted_ingredients |-> extracted_,
         constraint_check |-> constraint_result_,
         grounding_check |-> grounding_result_,
         overall_valid |-> OverallValid(constraint_result_, grounding_result_)]

RECURSIVE SumSeq(_)
\* sum(...) of a list of numbers
SumSeq(numbers) ==
    IF numbers = <<>> THEN 0 ELSE Head(numbers) + SumSeq(Tail(numbers))

\* mutant: the grounding count taken per novel ingredient, not per record
StrategySummary_per_ingredient(rs, strategy_) ==
    LET n == Len(rs)
        constraint_violations ==
            Cardinality({i \in 1..n : rs[i][strategy_].evaluation.constraint_check.violated})
        novel == SumSeq([i \in 1..n |-> rs[i][strategy_].evaluation.grounding_check.count])
    IN  [constraint_violation_count |-> constraint_violations,
         constraint_violation_rate |-> Rat(constraint_violations, n),
         grounding_violation_count |-> novel,
         grounding_violation_rate |-> Rat(novel, n),
         avg_novel_ingredients |-> Rat(novel, n)]

\* mutant: the constraint statistics under the names violation_count, violation_rate
StrategySummary_claimed(rs, strategy_) ==
    LET n == Len(rs)
        constraint_violations ==
            Cardinality({i \in 1..n : rs[i][strategy_].evaluation.constraint_check.violated})
        grounding_violations ==
            Cardinality({i \in 1..n : rs[i][strategy_].evaluation.grounding_check.violated})
        novel == SumSeq([i \in 1..n |-> rs[i][strategy_].evaluation.grounding_check.count])
    IN  [violation_count |-> constraint_violations,
         violation_rate |-> Rat(constraint_violations, n),
         grounding_violation_count |-> grounding_violations,
         grounding_violation_rate |-> Rat(grounding_violations, n),
         avg_novel_ingredients |-> Rat(novel, n)]

\* compute_summary, one strategy's statistics
StrategySummary(rs, strategy_) ==
    LET n == Len(rs)
        constraint_violations ==
            Cardinality({i \in 1..n : rs[i][strategy_].evaluation.constraint_check.violated})
        grounding_violations ==
            Cardinality({i \in 1..n : rs[i][strategy_].evaluation.grounding_check.violated})
        novel == SumSeq([i \in 1..n |-> rs[i][strategy_].evaluation.grounding_check.count])
    IN  [constraint_violation_count |-> constraint_violations,
         constraint_violation_rate |-> Rat(constraint_violations, n),
         grounding_violation_count |-> grounding_violations,
         grounding_violation_rate |-> Rat(grounding_violations, n),
         avg_novel_ingredients |-> Rat(novel, n)]

\* run_exp_grounded_ablation.compute_summary: <<>> for None
compute_summary(rs) ==
    IF Len(rs) = 0 THEN <<>>
    ELSE <<[num_examples |-> Len(rs),
            baseline |-> StrategySummary(rs, "baseline"),
            grounded |-> StrategySummary(rs, "grounded")]>>

-----------------------------------------------------------------------------
(* Inputs of the checkers *)

\* longest extracted ingredient list
MaxExtracted == 2

\* longest forbidden list
MaxForbidden == 2

\* longest generated text over TextAlphabet
MaxTextLen == 3

ExtractedPool == {"tofu", "tomato", "Tomatoes ", "diced tomatoes"}

AllowedPool == {"tofu", "Tomatoes", "Diced  Tomato"}

\* the allowed sets an evaluation is given: nothing, one recipe's, all
AllowedSets == {{}, {"tofu"}, AllowedPool}

\* what the language model may answer for a token.  The code takes the
\* answers as they come: one table lemmatizes two words, one a single word,
\* and one answers with a word it would lemmatize further
\* (grounds -> ground -> grind)
Lemmatizers == {
    [t \in {"tomatoes", "diced"} |-> IF t = "tomatoes" THEN "tomato" ELSE "dice"],
    [t \in {"tomatoes"} |-> "tomato"],
    [t \in {"grounds", "ground"} |-> IF t = "grounds" THEN "ground" ELSE "grind"] }

\* most source recipes of a hallucination evaluation
MaxSources == 1

\* generated recipes given to the hallucination evaluation
AdaptedTexts == {"Tofu stir fry with Onion", "Grilled CHICKEN with water",
                 "Plain rice", "Lentils and beans and mushrooms", ""}

\* strings normalize_ingredient is called on
IngredientArgs == {"Tofu", " tofu ", "Diced  Tomatoes", "diced tomatoes", "dice tomato",
                   " DICED TOMATOES", "Coffee Grounds ", "coffee grounds", ""}

TextAlphabet == {"h", "a", "m", "H"}

RECURSIVE Strings(_, _)
\* the strings over an alphabet of length at most n
Strings(alphabet, n) ==
    IF n = 0 THEN {""}
    ELSE LET shorter == Strings(alphabet, n - 1)
         IN  shorter \cup {w \o c : w \in shorter, c \in alphabet}

\* texts a generation may have produced
RecipeTexts == {"Add chicken broth", "CHICKEN Broth and Ham", "Shame on tofu",
                "tofu and tomato", "",
                "Ingredients:\n- tofu\n- diced tomatoes\n\nSteps:\nFry."}

Texts == Strings(TextAlphabet, MaxTextLen) \cup RecipeTexts

KeywordPool == {"ham", "Ham", "am", "chicken"}

UseLemmaArgs == {<<>>, <<TRUE>>, <<FALSE>>}

NoCalls == [extract |-> 0, constraint |-> 0, grounding |-> 0]

ChkIdle ==
    /\ chk_op = "idle"
    /\ chk_pc = "idle"
    /\ ingredient_arg = ""
    /\ source_recipes = <<>>
    /\ text = ""
    /\ constraint = ""
    /\ forbidden = <<>>
    /\ extracted = <<>>
    /\ allowed = {}
    /\ use_lemma = <<>>
    /\ USE_LEMMATIZATION = TRUE
    /\ nlp = "None"
    /\ lemmatizer = CHOOSE l \in Lemmatizers : TRUE
    /\ constraint_result = NoResult
    /\ grounding_result = NoResult
    /\ chk_result = NoResult
    /\ calls = NoCalls

ChkInit ==
    /\ chk_pc = "call"
    /\ \/ /\ chk_op = "check_grounding_violations"
          /\ ingredient_arg = ""
          /\ source_recipes = <<>>
          /\ text = ""
          /\ constraint = ""
          /\ forbidden = <<>>
          /\ extracted \in Lists(ExtractedPool, MaxExtracted)
          /\ allowed \in SUBSET AllowedPool
          /\ use_lemma \in UseLemmaArgs
          /\ USE_LEMMATIZATION \in BOOLEAN
          /\ lemmatizer \in Lemmatizers
       \/ /\ chk_op = "check_constraint_violation"
          /\ ingredient_arg = ""
          /\ source_recipes = <<>>
          /\ text \in Texts
          /\ constraint = "vegetarian"
          /\ forbidden \in Lists(KeywordPool, MaxForbidden)
          /\ extracted = <<>>
          /\ allowed = {}
          /\ use_lemma = <<>>
          /\ USE_LEMMATIZATION = TRUE
          /\ lemmatizer = CHOOSE l \in Lemmatizers : TRUE
       \/ /\ chk_op = "check_constraint_violations"
          /\ ingredient_arg = ""
          /\ source_recipes = <<>>
          /\ text \in Texts
          /\ constraint = ""
          /\ forbidden = <<>>
          /\ extracted = <<>>
          /\ allowed = {}
          /\ use_lemma = <<>>
          /\ USE_LEMMATIZATION = TRUE
          /\ lemmatizer = CHOOSE l \in Lemmatizers : TRUE
       \/ /\ chk_op = "evaluate_grounded"
          /\ ingredient_arg = ""
          /\ source_recipes = <<>>
          /\ text \in RecipeTexts
          /\ constraint = ""
          /\ forbidden = <<>>
          /\ extracted = <<>>
          /\ allowed \in AllowedSets
          /\ use_lemma \in UseLemmaArgs
          /\ USE_LEMMATIZATION \in BOOLEAN
          /\ lemmatizer \in Lemmatizers
       \/ /\ chk_op = "normalize_ingredient"
          /\ ingredient_arg \in IngredientArgs
          /\ source_recipes = <<>>
          /\ source_recipes = <<>>
          /\ text = ""
          /\ constraint = ""
          /\ forbidden = <<>>
          /\ extracted = <<>>
          /\ allowed = {}
          /\ use_lemma \in UseLemmaArgs
          /\ USE_LEMMATIZATION \in BOOLEAN
          /\ lemmatizer \in Lemmatizers
       \/ /\ chk_op = "evaluate_hallucinations"
          /\ ingredient_arg = ""
          /\ source_recipes \in Lists(ToyRecipes, MaxSources)
          /\ text \in AdaptedTexts
          /\ constraint \in {"vegetarian", "vegan"}
          /\ forbidden = <<>>
          /\ extracted = <<>>
          /\ allowed = {}
          /\ use_lemma = <<>>
          /\ USE_LEMMATIZATION = TRUE
          /\ lemmatizer = CHOOSE l \in Lemmatizers : TRUE
    /\ nlp = "None"
    /\ constraint_result = NoResult
    /\ grounding_result = NoResult
    /\ chk_result = NoResult
    /\ calls = NoCalls

\* a direct call of normalize_ingredient(ingredient, use_lemma)
CallNormalize ==
    /\ chk_op = "normalize_ingredient"
    /\ chk_pc = "call"
    /\ LET lemma_on == EffectiveLemma(use_lemma, USE_LEMMATIZATION)
       IN  /\ chk_result' = <<normalize_ingredient(ingredient_arg, lemma_on, lemmatizer)>>
           /\ nlp' = NlpAfter(nlp, lemma_on, TRUE)
    /\ chk_pc' = "done"
    /\ UNCHANGED <<chk_op, ingredient_arg, source_recipes, text, constraint, forbidden, extracted, allowed,
                   use_lemma, USE_LEMMATIZATION, lemmatizer, constraint_result,
                   grounding_result, calls>>

\* a call of evaluate_hallucinations(text, constraint, source_recipes)
CallEvaluateHallucinations ==
    /\ chk_op = "evaluate_hallucinations"
    /\ chk_pc = "call"
    /\ \E mentioned \in Orderings(Mentioned(text, SourceIngredients(source_recipes),
                                            AllowedSubsFor(constraint))) :
           chk_result' = evaluate_hallucinations(text, constraint, source_recipes, mentioned)
    /\ chk_pc' = "done"
    /\ UNCHANGED <<chk_op, ingredient_arg, source_recipes, text, constraint, forbidden,
                   extracted, allowed, use_lemma, USE_LEMMATIZATION, nlp, lemmatizer,
                   constraint_result, grounding_result, calls>>

\* a direct call of check_grounding_violations(extracted, allowed, use_lemma)
CallCheckGrounding ==
    /\ chk_op = "check_grounding_violations"
    /\ chk_pc = "call"
    /\ LET lemma_on == EffectiveLemma(use_lemma, USE_LEMMATIZATION)
       IN  /\ chk_result' = check_grounding_violations(extracted, allowed, lemma_on, lemmatizer)
           /\ nlp' = NlpAfter(nlp, lemma_on, extracted # <<>> \/ allowed # {})
    /\ chk_pc' = "done"
    /\ UNCHANGED <<chk_op, ingredient_arg, source_recipes, text, constraint, forbidden, extracted, allowed, use_lemma,
                   USE_LEMMATIZATION, lemmatizer, constraint_result, grounding_result, calls>>

\* a direct call of check_constraint_violation(text, constraint, forbidden)
CallCheckConstraint ==
    /\ chk_op = "check_constraint_violation"
    /\ chk_pc = "call"
    /\ chk_result' = check_constraint_violation(text, constraint, forbidden)
    /\ chk_pc' = "done"
    /\ UNCHANGED <<chk_op, ingredient_arg, source_recipes, text, constraint, forbidden, extracted, allowed, use_lemma,
                   USE_LEMMATIZATION, nlp, lemmatizer, constraint_result, grounding_result,
                   calls>>

\* a direct call of check_constraint_violations(text)
CallCheckConstraints ==
    /\ chk_op = "check_constraint_violations"
    /\ chk_pc = "call"
    /\ chk_result' = check_constraint_violations(text)
    /\ chk_pc' = "done"
    /\ UNCHANGED <<chk_op, ingredient_arg, source_recipes, text, constraint, forbidden, extracted, allowed, use_lemma,
                   USE_LEMMATIZATION, nlp, lemmatizer, constraint_result, grounding_result,
                   calls>>

\* evaluate_grounded, line 258: extracted = extract_ingredients_from_text(text),
\* the ingredient parser behaving in one of its ways
EvalExtract ==
    /\ chk_op = "evaluate_grounded"
    /\ chk_pc = "call"
    /\ \E p \in Parsers : extracted' = extract_ingredients_from_text(text, p)
    /\ calls' = [calls EXCEPT !.extract = @ + 1]
    /\ chk_pc' = "extracted"
    /\ UNCHANGED <<chk_op, ingredient_arg, source_recipes, text, constraint, forbidden, allowed, use_lemma,
                   USE_LEMMATIZATION, nlp, lemmatizer, constraint_result, grounding_result,
                   chk_result>>

\* evaluate_grounded, line 261: constraint_result = check_constraint_violations(text)
EvalConstraint ==
    /\ chk_op = "evaluate_grounded"
    /\ chk_pc = "extracted"
    /\ constraint_result' = check_constraint_violations(text)
    /\ calls' = [calls EXCEPT !.constraint = @ + 1]
    /\ chk_pc' = "constraint_checked"
    /\ UNCHANGED <<chk_op, ingredient_arg, source_recipes, text, constraint, forbidden, extracted, allowed, use_lemma,
                   USE_LEMMATIZATION, nlp, lemmatizer, grounding_result, chk_result>>

\* evaluate_grounded, lines 264-268: grounding_result = check_grounding_violations(...)
EvalGrounding ==
    /\ chk_op = "evaluate_grounded"
    /\ chk_pc = "constraint_checked"
    /\ LET lemma_on == EffectiveLemma(use_lemma, USE_LEMMATIZATION)
       IN  /\ grounding_result' =
                  check_grounding_violations(extracted, allowed, lemma_on, lemmatizer)
           /\ nlp' = NlpAfter(nlp, lemma_on, extracted # <<>> \/ allowed # {})
    /\ calls' = [calls EXCEPT !.grounding = @ + 1]
    /\ chk_pc' = "grounding_checked"
    /\ UNCHANGED <<chk_op, ingredient_arg, source_recipes, text, constraint, forbidden, extracted, allowed, use_lemma,
                   USE_LEMMATIZATION, lemmatizer, constraint_result, chk_result>>

\* evaluate_grounded, lines 270-275: the bundle returned
EvalReturn ==
    /\ chk_op = "evaluate_grounded"
    /\ chk_pc = "grounding_checked"
    /\ chk_result' = [extracted_ingredients |-> extracted,
                      constraint_check |-> constraint_result,
                      grounding_check |-> grounding_result,
                      overall_valid |-> OverallValid(constraint_result, grounding_result)]
    /\ chk_pc' = "done"
    /\ UNCHANGED <<chk_op, ingredient_arg, source_recipes, text, constraint, forbidden, extracted, allowed, use_lemma,
                   USE_LEMMATIZATION, nlp, lemmatizer, constraint_result, grounding_result,
                   calls>>

-----------------------------------------------------------------------------
(* One call of extract_ingredients_from_text, line by line *)

\* most lines of a text put together from LinePool
MaxLines == 3

LinePool == {"Ingredients:", "INGREDIENTS:", "Steps:", "STEPS:",
             "- 1 onion", "1. Fold in Onion", "2 cups flour, Bowl,", ""}

\* whole generated recipes
RecipeOutputs ==
    {"Ingredients:\n- 2 cups flour\n- 1 onion\n\nSteps:\n1. Mix flour and onion.",
     "INGREDIENTS:\n- 2 cups flour\n- 1 onion\n\nSTEPS:\n1. Mix flour and onion.",
     "INGREDIENTS:\n- 1 onion\nSTEPS:\n1. Fold in Flour",
     "**Ingredients:**\n* 1 Onion\n* 1 onion\n* a pinch of sea salt flakes\n* vitamin C\n* Vegan\n\nMethod:\nFry.",
     "## Ingredients\n\nSteps:\n1. Fold in Onion",
     "Here is the recipe.\n1 onion\nIngredients",
     "Ingredients:\n- 1 onion\n- salt to taste\n- 2 cups flour\n\nSteps:\nFry."}

ExtTexts == {Join(ls, "\n") : ls \in Lists(LinePool, MaxLines)} \cup RecipeOutputs

ExtIdle ==
    /\ ext_pc = "idle"
    /\ ext_text = ""
    /\ parser = "whole"
    /\ ingredients_section = <<>>
    /\ lines = <<>>
    /\ line_no = 0
    /\ ext_acc = NoIngredients
    /\ ext_result = NoResult

ExtInit ==
    /\ ext_pc = "call"
    /\ ext_text \in ExtTexts
    /\ parser \in Parsers
    /\ ingredients_section = <<>>
    /\ lines = <<>>
    /\ line_no = 0
    /\ ext_acc = NoIngredients
    /\ ext_result = NoResult

\* lines 134-152: the text cleaned, the section searched, the lines chosen
Isolate ==
    /\ ext_pc = "call"
    /\ ingredients_section' = SearchSection(CleanText(ext_text))
    /\ lines' = LinesToParse(ext_text)
    /\ line_no' = 1
    /\ ext_pc' = "lines"
    /\ UNCHANGED <<ext_text, parser, ext_acc, ext_result>>

\* parse_line on a line it drops before the parser
DropLine ==
    /\ ext_pc = "lines"
    /\ line_no <= Len(lines)
    /\ LineForParser(lines[line_no]) = <<>>
    /\ ext_acc' = parse_line(ext_acc, lines[line_no], parser)
    /\ line_no' = line_no + 1
    /\ UNCHANGED <<ext_pc, ext_text, parser, ingredients_section, lines, ext_result>>

\* parse_line on a line the parser parses: its names go through add_ingredient
ParseLine ==
    /\ ext_pc = "lines"
    /\ line_no <= Len(lines)
    /\ LineForParser(lines[line_no]) # <<>>
    /\ ~parse_ingredient(parser, LineForParser(lines[line_no])[1]).raised
    /\ ext_acc' = parse_line(ext_acc, lines[line_no], parser)
    /\ line_no' = line_no + 1
    /\ UNCHANGED <<ext_pc, ext_text, parser, ingredients_section, lines, ext_result>>

\* parse_line on a line the parser raises on: lines 130-131 swallow it
SwallowLine ==
    /\ ext_pc = "lines"
    /\ line_no <= Len(lines)
    /\ LineForParser(lines[line_no]) # <<>>
    /\ parse_ingredient(parser, LineForParser(lines[line_no])[1]).raised
    /\ ext_acc' = parse_line(ext_acc, lines[line_no], parser)
    /\ line_no' = line_no + 1
    /\ UNCHANGED <<ext_pc, ext_text, parser, ingredients_section, lines, ext_result>>

\* line 154: return ingredients
ExtReturn ==
    /\ ext_pc = "lines"
    /\ line_no > Len(lines)
    /\ ext_result' = <<ext_acc.ingredients>>
    /\ ext_pc' = "done"
    /\ UNCHANGED <<ext_text, parser, ingredients_section, lines, line_no, ext_acc>>

-----------------------------------------------------------------------------
(* One run of run_single_experiment and save_results (run_exp_grounded_ablation.py) *)

\* most test examples of a run
MaxExamples == 2

NUM_EXAMPLES == 1000

TOP_K_VALUES == {3, 5}

MODEL == "llama3.2:3b"

CONSTRAINT == "vegetarian"

RANDOM_SEED == 42

\* base recipes of the pairs, as scripts/fetch_recipepairs.py writes them
BaseRecipes == {
    [id |-> 1, name |-> "Chicken Curry",
     ingredients |-> <<"chicken", "curry powder", "onion">>, steps |-> "Fry the chicken."],
    [id |-> 2, name |-> "Beef Stew",
     ingredients |-> <<"beef", "onion">>, steps |-> "Stew the beef."] }

\* the targets of the pairs
TargetCorpus == <<
    [id |-> 11, name |-> "Chickpea Curry",
     ingredients |-> <<"chickpeas", "Curry Powder", "onion">>, steps |-> "Fry the chickpeas."],
    [id |-> 12, name |-> "Tofu Stew",
     ingredients |-> <<" Tofu", "onion">>, steps |-> "Stew the tofu."] >>

\* what the text-generation service may answer
Responses == {"", "Ingredients:\n- tofu\n- ham\n\nSteps:\nFry.\n"}

\* what the service raises when it fails
ServiceErrors == {"Failed to connect to Ollama"}

\* what a retrieval or an evaluation raises when it fails
StageError(stage) ==
    IF stage = "retrieve" THEN "retrieval failed" ELSE "evaluation failed"

\* mutant: the response text tidied before it is returned
ReturnedText_stripped(response_) == StrStrip(response_.message.content)

\* response["message"]["content"], returned as it is
ReturnedText(response_) == response_.message.content

\* mutant: the failed example numbered from 0
ErrorEntry_zero_based(i, base, e) ==
    [example_id |-> i - 1,
     base_recipe |-> [name |-> base.name, ingredients |-> base.ingredients],
     error |-> e]

\* the entry the except clause appends for example i
ErrorEntry(i, base, e) ==
    [example_id |-> i,
     base_recipe |-> [name |-> base.name, ingredients |-> base.ingredients],
     error |-> e]

\* where the loop goes after example i
AfterExample(i, bases) == IF i < Len(bases) THEN "retrieve" ELSE "summarize"

\* mutant: the grounded generation before the baseline generation
StepAfter_grounded_first(step) ==
    CASE step = "retrieve" -> "grounded"
      [] step = "grounded" -> "grounded_wait"
      [] step = "grounded_wait" -> "baseline"
      [] step = "baseline" -> "baseline_wait"
      [] step = "baseline_wait" -> "evaluate_baseline"
      [] step = "evaluate_baseline" -> "evaluate_grounded"
      [] step = "evaluate_grounded" -> "record"

\* the statements of the try block in the order they stand (lines 41-78):
\* the step that follows a step that did not raise
StepAfter(step) ==
    CASE step = "retrieve" -> "baseline"
      [] step = "baseline" -> "baseline_wait"
      [] step = "baseline_wait" -> "grounded"
      [] step = "grounded" -> "grounded_wait"
      [] step = "grounded_wait" -> "evaluate_baseline"
      [] step = "evaluate_baseline" -> "evaluate_grounded"
      [] step = "evaluate_grounded" -> "record"

DrvIdle ==
    /\ drv_pc = "idle"
    /\ test_bases = <<>>
    /\ corpus = <<>>
    /\ drv_top_k = 3
    /\ example = 0
    /\ retrieved = <<>>
    /\ drv_allowed = <<>>
    /\ requests = <<>>
    /\ response = <<>>
    /\ output_baseline = <<>>
    /\ output_grounded = <<>>
    /\ eval_baseline = <<>>
    /\ eval_grounded = <<>>
    /\ results = <<>>
    /\ summary = <<>>
    /\ sink = <<>>

DrvInit ==
    /\ test_bases \in Lists(BaseRecipes, MaxExamples)
    /\ drv_pc = IF test_bases = <<>> THEN "summarize" ELSE "retrieve"
    /\ corpus = TargetCorpus
    /\ drv_top_k \in TOP_K_VALUES
    /\ example = IF test_bases = <<>> THEN 0 ELSE 1
    /\ retrieved = <<>>
    /\ drv_allowed = <<>>
    /\ requests = <<>>
    /\ response = <<>>
    /\ output_baseline = <<>>
    /\ output_grounded = <<>>
    /\ eval_baseline = <<>>
    /\ eval_grounded = <<>>
    /\ results = <<>>
    /\ summary = <<>>
    /\ sink = <<>>

\* lines 41-45: retrieved = retrieve_similar_recipes(base, corpus, top_k=top_k)
\* and allowed = extract_allowed_ingredients(retrieved)
Retrieve ==
    /\ drv_pc = "retrieve"
    /\ retrieved' = retrieve_similar_recipes(test_bases[example], corpus, drv_top_k)
    /\ corpus' = CorpusAfterRetrieval(test_bases[example], corpus, drv_top_k)
    /\ drv_allowed' = <<extract_allowed_ingredients(retrieved')>>
    /\ drv_pc' = StepAfter(drv_pc)
    /\ output_baseline' = <<>>
    /\ output_grounded' = <<>>
    /\ eval_baseline' = <<>>
    /\ eval_grounded' = <<>>
    /\ response' = <<>>
    /\ UNCHANGED <<test_bases, drv_top_k, example, requests, results, summary, sink>>

\* baseline_adapt / grounded_adapt up to ollama.chat(...): the prompt is built
\* and sent
AdaptRequest ==
    /\ drv_pc \in {"baseline", "grounded"}
    /\ requests' = Append(requests,
                          ChatRequest(drv_pc, test_bases[example],
                                      [i \in 1..Len(retrieved) |-> retrieved[i].item[1]],
                                      CONSTRAINT, MODEL))
    /\ response' = <<>>
    /\ drv_pc' = StepAfter(drv_pc)
    /\ UNCHANGED <<test_bases, corpus, drv_top_k, example, retrieved, drv_allowed,
                   output_baseline, output_grounded, eval_baseline, eval_grounded,
                   results, summary, sink>>

\* the service answers and the adaptation returns response["message"]["content"]
AdaptReturn ==
    /\ drv_pc \in {"baseline_wait", "grounded_wait"}
    /\ \E content \in Responses :
           /\ response' = <<[message |-> [role |-> "assistant", content |-> content]]>>
           /\ IF drv_pc = "baseline_wait"
              THEN /\ output_baseline' = <<ReturnedText(response'[1])>>
                   /\ UNCHANGED output_grounded
              ELSE /\ output_grounded' = <<ReturnedText(response'[1])>>
                   /\ UNCHANGED output_baseline
    /\ drv_pc' = StepAfter(drv_pc)
    /\ UNCHANGED <<test_bases, corpus, drv_top_k, example, retrieved, drv_allowed, requests,
                   eval_baseline, eval_grounded, results, summary, sink>>

\* the service fails: ollama.chat raises, the adaptation lets the exception
\* through, and the except clause of the loop (lines 80-87) records it
AdaptRaise ==
    /\ drv_pc \in {"baseline_wait", "grounded_wait"}
    /\ \E e \in ServiceErrors :
           results' = Append(results, ErrorEntry(example, test_bases[example], e))
    /\ drv_pc' = AfterExample(example, test_bases)
    /\ example' = example + 1
    /\ UNCHANGED <<test_bases, corpus, drv_top_k, retrieved, drv_allowed, requests, response,
                   output_baseline, output_grounded, eval_baseline, eval_grounded,
                   summary, sink>>

\* retrieval or an evaluation raises inside the try: lines 80-87 record it
StageRaise ==
    /\ drv_pc \in {"retrieve", "evaluate_baseline", "evaluate_grounded"}
    /\ results' = Append(results,
                         ErrorEntry(example, test_bases[example], StageError(drv_pc)))
    /\ drv_pc' = AfterExample(example, test_bases)
    /\ example' = example + 1
    /\ UNCHANGED <<test_bases, corpus, drv_top_k, retrieved, drv_allowed, requests, response,
                   output_baseline, output_grounded, eval_baseline, eval_grounded,
                   summary, sink>>

\* line 54: eval_baseline = evaluate_grounded(output_baseline, allowed)
EvaluateBaseline ==
    /\ drv_pc = "evaluate_baseline"
    /\ eval_baseline' = <<evaluate_grounded(output_baseline[1], drv_allowed[1],
                                            USE_LEMMATIZATION, lemmatizer, parser)>>
    /\ drv_pc' = StepAfter(drv_pc)
    /\ UNCHANGED <<test_bases, corpus, drv_top_k, example, retrieved, drv_allowed, requests,
                   response, output_baseline, output_grounded, eval_grounded, results,
                   summary, sink>>

\* line 55: eval_grounded = evaluate_grounded(output_grounded, allowed)
EvaluateGrounded ==
    /\ drv_pc = "evaluate_grounded"
    /\ eval_grounded' = <<evaluate_grounded(output_grounded[1], drv_allowed[1],
                                            USE_LEMMATIZATION, lemmatizer, parser)>>
    /\ drv_pc' = StepAfter(drv_pc)
    /\ UNCHANGED <<test_bases, corpus, drv_top_k, example, retrieved, drv_allowed, requests,
                   response, output_baseline, output_grounded, eval_baseline, results,
                   summary, sink>>

\* lines 58-78: the record built and appended (allowed_ingredients, a list in
\* the set's iteration order, is kept as the set)
Record ==
    /\ drv_pc = "record"
    /\ LET base == test_bases[example]
       IN  results' = Append(results,
               [example_id |-> example,
                base_recipe |-> [name |-> base.name, ingredients |-> base.ingredients],
                retrieved_recipes |-> [i \in 1..Len(retrieved) |->
                                          [name |-> retrieved[i].item[1].name,
                                           score |-> retrieved[i].score]],
                allowed_ingredients |-> drv_allowed[1],
                baseline |-> [output |-> output_baseline[1],
                              evaluation |-> eval_baseline[1]],
                grounded |-> [output |-> output_grounded[1],
                              evaluation |-> eval_grounded[1]]])
    /\ drv_pc' = AfterExample(example, test_bases)
    /\ example' = example + 1
    /\ UNCHANGED <<test_bases, corpus, drv_top_k, retrieved, drv_allowed, requests, response,
                   output_baseline, output_grounded, eval_baseline, eval_grounded,
                   summary, sink>>

\* lines 90-91: the summary over the results without an error
Summarize ==
    /\ drv_pc = "summarize"
    /\ LET valid_results == SelectSeq(results, LAMBDA r : "error" \notin DOMAIN r)
       IN  summary' = IF valid_results # <<>> THEN compute_summary(valid_results) ELSE <<>>
    /\ drv_pc' = "save"
    /\ UNCHANGED <<test_bases, corpus, drv_top_k, example, retrieved, drv_allowed, requests,
                   response, output_baseline, output_grounded, eval_baseline, eval_grounded,
                   results, sink>>

\* save_results: the object written to the results file
SaveResults ==
    /\ drv_pc = "save"
    /\ sink' = Append(sink,
                      [metadata |-> [timestamp |-> "timestamp",
                                     config |-> [num_examples |-> NUM_EXAMPLES,
                                                 top_k |-> drv_top_k,
                                                 model |-> MODEL,
                                                 constraint |-> CONSTRAINT,
                                                 random_seed |-> RANDOM_SEED]],
                       summary |-> summary,
                       results |-> results])
    /\ drv_pc' = "done"
    /\ UNCHANGED <<test_bases, corpus, drv_top_k, example, retrieved, drv_allowed, requests,
                   response, output_baseline, output_grounded, eval_baseline, eval_grounded,
                   results, summary>>

-----------------------------------------------------------------------------
(* A process making one call of the normalizer or the evaluation after another *)

\* most calls of one process
MaxCalls == 3

\* use_lemma as a caller may pass it: None, True, False
LemmaFlags == {<<>>, <<TRUE>>, <<FALSE>>}

\* mutant: spacy.load on every lemmatizing call
LoadsAfter_every_call(handle, lemma_on, normalized_any, n) ==
    IF lemma_on /\ normalized_any THEN n + 1 ELSE n

\* how often spacy.load has returned after a call: _get_nlp loads only while
\* _nlp is None (lines 24-25)
LoadsAfter(handle, lemma_on, normalized_any, n) ==
    IF lemma_on /\ normalized_any /\ handle = "None" THEN n + 1 ELSE n

\* everything of the checker's state but the model handle
chk_rest == <<chk_op, chk_pc, ingredient_arg, source_recipes, text, constraint, forbidden,
              extracted, allowed, use_lemma, USE_LEMMATIZATION, lemmatizer,
              constraint_result, grounding_result, chk_result, calls>>

LazyIdle ==
    /\ loads = 0
    /\ call_log = <<>>

LazyInit ==
    /\ loads = 0
    /\ call_log = <<>>

\* what the log keeps of a call
Logged(op, lemma_on, normalized_any, failed, returned) ==
    [op |-> op, lemma |-> lemma_on, normalized_any |-> normalized_any,
     failed |-> failed, returned |-> returned,
     loaded |-> ~failed /\ LoadsAfter(nlp, lemma_on, normalized_any, loads) > loads]

\* normalize_ingredient(ingredient, use_lemma), the model loading if need be
LazyNormalize ==
    /\ Len(call_log) < MaxCalls
    /\ \E ingredient \in {" Diced Tomatoes", "tofu"}, flag \in LemmaFlags :
           LET lemma_on == EffectiveLemma(flag, USE_LEMMATIZATION)
           IN  /\ nlp' = NlpAfter(nlp, lemma_on, TRUE)
               /\ loads' = LoadsAfter(nlp, lemma_on, TRUE, loads)
               /\ call_log' = Append(call_log,
                      Logged("normalize_ingredient", lemma_on, TRUE, FALSE,
                             <<normalize_ingredient(ingredient, lemma_on, lemmatizer)>>))
    /\ UNCHANGED chk_rest

\* evaluate_grounded(text, allowed_ingredients, use_lemma): normalize_ingredient
\* runs once for every extracted and every allowed ingredient
LazyEvaluate ==
    /\ Len(call_log) < MaxCalls
    /\ \E t \in Responses, allowed_ingredients \in {{}, {"tofu"}}, flag \in LemmaFlags :
           LET lemma_on == EffectiveLemma(flag, USE_LEMMATIZATION)
               normalized_any == extract_ingredients_from_text(t, parser) # <<>>
                                     \/ allowed_ingredients # {}
           IN  /\ nlp' = NlpAfter(nlp, lemma_on, normalized_any)
               /\ loads' = LoadsAfter(nlp, lemma_on, normalized_any, loads)
               /\ call_log' = Append(call_log,
                      Logged("evaluate_grounded", lemma_on, normalized_any, FALSE,
                             <<evaluate_grounded(t, allowed_ingredients, lemma_on,
                                                 lemmatizer, parser).grounding_check>>))
    /\ UNCHANGED chk_rest

\* a lemmatizing call while _nlp is None, spacy.load raising: the exception
\* leaves the call and _nlp stays None
LazyLoadFails ==
    /\ Len(call_log) < MaxCalls
    /\ nlp = "None"
    /\ \E op \in {"normalize_ingredient", "evaluate_grounded"} :
           call_log' = Append(call_log, Logged(op, TRUE, TRUE, TRUE, <<>>))
    /\ UNCHANGED <<nlp, loads, chk_rest>>

-----------------------------------------------------------------------------
(* The examples of run_exp_grounded.py worked on side by side *)

\* run_exp_grounded.py: TOP_K
TOP_K == 3

\* one worker per example
Workers == {"w1", "w2"}

\* the targets the workers retrieve from
ParCorpus == <<
    [id |-> 21, name |-> "Tomato Curry",
     ingredients |-> <<"tomato", "diced onion", "grind">>, steps |-> "Fry."],
    [id |-> 22, name |-> "Tofu Stew",
     ingredients |-> <<"Tofu", "onion">>, steps |-> "Stew the tofu."] >>

\* what the text-generation service may answer
ParResponses == {"", "Ingredients:\n- tofu\n- tomatoes\n- ground\n"}

\* the prompts the workers can send
ParPrompts ==
    {ChatRequest(strategy_, base,
                 [i \in 1..Len(retrieve_similar_recipes(base, ParCorpus, TOP_K)) |->
                     retrieve_similar_recipes(base, ParCorpus, TOP_K)[i].item[1]],
                 CONSTRAINT, MODEL).messages[1].content :
        strategy_ \in {"baseline", "grounded"}, base \in BaseRecipes}

\* mutant: a second load gives a model that lemmatizes nothing
ModelLoaded_second_blank(n) == IF n = 1 THEN lemmatizer ELSE [t \in {} |-> t]

\* what the model of the n-th spacy.load answers: the installed model, every time
ModelLoaded(n) == lemmatizer

\* whether evaluate_grounded(output, allowed) reaches _get_nlp
NeedsModel(output, allowed_ingredients) ==
    USE_LEMMATIZATION
        /\ (extract_ingredients_from_text(output, parser) # <<>> \/ allowed_ingredients # {})

ParIdle ==
    /\ par_pc = <<>>
    /\ par_base = <<>>
    /\ service = <<>>
    /\ par_retrieved = <<>>
    /\ par_output = <<>>
    /\ par_eval = <<>>
    /\ par_record = <<>>

ParInit ==
    /\ par_pc = [w \in Workers |-> "retrieve"]
    /\ par_base \in [Workers -> BaseRecipes]
    /\ service \in [ParPrompts -> ParResponses]
    /\ par_retrieved = [w \in Workers |-> <<>>]
    /\ par_output = [w \in Workers |-> [baseline |-> <<>>, grounded |-> <<>>]]
    /\ par_eval = [w \in Workers |-> [baseline |-> <<>>, grounded |-> <<>>]]
    /\ par_record = [w \in Workers |-> <<>>]

\* the allowed set of worker w's example
ParAllowed(w) == extract_allowed_ingredients(par_retrieved[w])

\* lines 65-69: retrieval and allowed set
ParRetrieve(w) ==
    /\ par_pc[w] = "retrieve"
    /\ par_retrieved' = [par_retrieved EXCEPT
                            ![w] = retrieve_similar_recipes(par_base[w], ParCorpus, TOP_K)]
    /\ par_pc' = [par_pc EXCEPT ![w] = "baseline"]
    /\ UNCHANGED <<par_base, service, par_output, par_eval, par_record, loads, call_log,
                   chk_vars>>

\* lines 72 and 75: an adaptation, the service answering by the prompt alone
ParAdapt(w) ==
    /\ par_pc[w] \in {"baseline", "grounded"}
    /\ LET prompt == ChatRequest(par_pc[w], par_base[w],
                                 [i \in 1..Len(par_retrieved[w]) |->
                                     par_retrieved[w][i].item[1]],
                                 CONSTRAINT, MODEL).messages[1].content
       IN  par_output' = [par_output EXCEPT ![w][par_pc[w]] = <<service[prompt]>>]
    /\ par_pc' = [par_pc EXCEPT ![w] = IF par_pc[w] = "baseline" THEN "grounded"
                                       ELSE "get_nlp_baseline"]
    /\ UNCHANGED <<par_base, service, par_retrieved, par_eval, par_record, loads, call_log,
                   chk_vars>>

\* the strategy whose evaluation worker w is at
ParStrategy(w) ==
    IF par_pc[w] \in {"get_nlp_baseline", "load_baseline", "evaluate_baseline"}
    THEN "baseline" ELSE "grounded"

\* _get_nlp, line 24: the worker reads _nlp and finds it None or set
ParGetNlp(w) ==
    /\ par_pc[w] \in {"get_nlp_baseline", "get_nlp_grounded"}
    /\ par_pc' = [par_pc EXCEPT ![w] =
                     IF NeedsModel(par_output[w][ParStrategy(w)][1], ParAllowed(w))
                            /\ nlp = "None"
                     THEN "load_" \o ParStrategy(w)
                     ELSE "evaluate_" \o ParStrategy(w)]
    /\ UNCHANGED <<par_base, service, par_retrieved, par_output, par_eval, par_record,
                   loads, call_log, chk_vars>>

\* _get_nlp, line 25: the worker loads a model and assigns it to _nlp,
\* whatever _nlp has become meanwhile
ParLoad(w) ==
    /\ par_pc[w] \in {"load_baseline", "load_grounded"}
    /\ nlp' = "loaded"
    /\ loads' = loads + 1
    /\ par_pc' = [par_pc EXCEPT ![w] = "evaluate_" \o ParStrategy(w)]
    /\ UNCHANGED <<par_base, service, par_retrieved, par_output, par_eval, par_record,
                   call_log, chk_rest>>

\* lines 78-79: the evaluation, lemmatizing with the model _nlp holds now
ParEvaluate(w) ==
    /\ par_pc[w] \in {"evaluate_baseline", "evaluate_grounded"}
    /\ par_eval' = [par_eval EXCEPT ![w][ParStrategy(w)] =
                       <<evaluate_grounded(par_output[w][ParStrategy(w)][1], ParAllowed(w),
                                           USE_LEMMATIZATION, ModelLoaded(loads), parser)>>]
    /\ par_pc' = [par_pc EXCEPT ![w] = IF par_pc[w] = "evaluate_baseline"
                                       THEN "get_nlp_grounded" ELSE "record"]
    /\ UNCHANGED <<par_base, service, par_retrieved, par_output, par_record, loads,
                   call_log, chk_vars>>

\* a record without its example_id
RecordOf(base, retrieved_, output_b, output_g, eval_b, eval_g) ==
    [base_recipe |-> [name |-> base.name, ingredients |-> base.ingredients],
     retrieved_recipes |-> [i \in 1..Len(retrieved_) |->
                               [name |-> retrieved_[i].item[1].name,
                                score |-> retrieved_[i].score]],
     allowed_ingredients |-> extract_allowed_ingredients(retrieved_),
     baseline |-> [output |-> output_b, evaluation |-> eval_b],
     grounded |-> [output |-> output_g, evaluation |-> eval_g]]

\* lines 82-100: the record of the example
ParRecord(w) ==
    /\ par_pc[w] = "record"
    /\ par_record' = [par_record EXCEPT ![w] =
                         <<RecordOf(par_base[w], par_retrieved[w],
                                    par_output[w].baseline[1], par_output[w].grounded[1],
                                    par_eval[w].baseline[1], par_eval[w].grounded[1])>>]
    /\ par_pc' = [par_pc EXCEPT ![w] = "done"]
    /\ UNCHANGED <<par_base, service, par_retrieved, par_output, par_eval, loads, call_log,
                   chk_vars>>

-----------------------------------------------------------------------------
(* One call of compute_summary *)

\* most records given to compute_summary
MaxRecords == 2

\* evaluations as evaluate_grounded returns them
EvaluationPool ==
    {evaluate_grounded(t, {"tofu"}, USE_LEMMATIZATION, lemmatizer, parser) :
        t \in Responses \cup ParResponses}

\* the records compute_summary reads: an evaluation per strategy
SummaryRecords ==
    {[baseline |-> [evaluation |-> b], grounded |-> [evaluation |-> g]] :
        b \in EvaluationPool, g \in EvaluationPool}

SumIdle ==
    /\ sum_pc = "idle"
    /\ sum_records = <<>>
    /\ sum_result = <<>>

SumInit ==
    /\ sum_pc = "call"
    /\ sum_records \in Lists(SummaryRecords, MaxRecords)
    /\ sum_result = <<>>

\* compute_summary(results)
CallComputeSummary ==
    /\ sum_pc = "call"
    /\ sum_result' = compute_summary(sum_records)
    /\ sum_pc' = "done"
    /\ UNCHANGED sum_records

-----------------------------------------------------------------------------
(* The validator of the toy recipes: src/data/validate_recipes.py *)

\* most edges of a recipe graph
MaxEdges == 2

\* the ids an edge may name: an action, an ingredient, and an id of no node
EdgeEnds == {"a1", "i1", "x9"}

EdgeRoles == {"input", "output", "garnish"}

GraphEdges == [source : EdgeEnds, target : EdgeEnds, role : EdgeRoles]

\* toy recipes, as far as check_graph_structure reads them
GraphRecipes ==
    {[graph |-> [ingredients |-> <<[id |-> "i1", name |-> "onion"],
                                   [id |-> "i2", name |-> "oil"]>>,
                 actions |-> <<[id |-> "a1", verb |-> "fry"]>>,
                 edges |-> es]] : es \in Lists(GraphEdges, MaxEdges)}

\* the issues of one edge, in the order the loop body appends them
EdgeIssues(edge, ingredient_ids, action_ids) ==
    (IF edge.source \in ingredient_ids
        THEN <<"Edge source '" \o edge.source \o "' is an ingredient, should be an action.">>
        ELSE <<>>)
    \o (IF edge.target \in action_ids
        THEN <<"Edge target '" \o edge.target \o "' is an action, should be an ingredient.">>
        ELSE <<>>)
    \o (IF edge.role \notin {"input", "output"}
        THEN <<"Edge role '" \o edge.role \o "' is invalid. Must be 'input' or 'output'.">>
        ELSE <<>>)

RECURSIVE IssuesOfEdges(_, _, _)
IssuesOfEdges(edges, ingredient_ids, action_ids) ==
    IF edges = <<>> THEN <<>>
    ELSE EdgeIssues(Head(edges), ingredient_ids, action_ids)
             \o IssuesOfEdges(Tail(edges), ingredient_ids, action_ids)

\* check_graph_structure(recipe)
check_graph_structure(recipe) ==
    LET ingredient_ids == {recipe.graph.ingredients[i].id : i \in DOMAIN recipe.graph.ingredients}
        action_ids == {recipe.graph.actions[i].id : i \in DOMAIN recipe.graph.actions}
    IN  IssuesOfEdges(recipe.graph.edges, ingredient_ids, action_ids)

ValIdle ==
    /\ val_pc = "idle"
    /\ val_recipe = <<>>
    /\ val_issues = <<>>

ValInit ==
    /\ val_pc = "call"
    /\ val_recipe \in GraphRecipes
    /\ val_issues = <<>>

CallCheckGraphStructure ==
    /\ val_pc = "call"
    /\ val_issues' = check_graph_structure(val_recipe)
    /\ val_pc' = "done"
    /\ UNCHANGED val_recipe

-----------------------------------------------------------------------------
(* The specifications: one per component, the other components at rest *)

SimNext ==
    \/ CallJaccard /\ UNCHANGED <<ret_vars, chk_vars, ext_vars, drv_vars, lazy_vars, par_vars, sum_vars, val_vars>>
    \/ CallNameJaccard /\ UNCHANGED <<ret_vars, chk_vars, ext_vars, drv_vars, lazy_vars, par_vars, sum_vars, val_vars>>
    \/ CallCombined /\ UNCHANGED <<ret_vars, chk_vars, ext_vars, drv_vars, lazy_vars, par_vars, sum_vars, val_vars>>

InitSim == SimInit /\ RetIdle /\ ChkIdle /\ ExtIdle /\ DrvIdle /\ LazyIdle /\ ParIdle /\ SumIdle /\ ValIdle

SpecSim == InitSim /\ [][SimNext]_vars

RetNext ==
    \/ Lookup /\ UNCHANGED <<sim_vars, chk_vars, ext_vars, drv_vars, lazy_vars, par_vars, sum_vars, val_vars>>
    \/ Start /\ UNCHANGED <<sim_vars, chk_vars, ext_vars, drv_vars, lazy_vars, par_vars, sum_vars, val_vars>>
    \/ SkipSelf /\ UNCHANGED <<sim_vars, chk_vars, ext_vars, drv_vars, lazy_vars, par_vars, sum_vars, val_vars>>
    \/ ScoreCandidate /\ UNCHANGED <<sim_vars, chk_vars, ext_vars, drv_vars, lazy_vars, par_vars, sum_vars, val_vars>>
    \/ SortAndReturn /\ UNCHANGED <<sim_vars, chk_vars, ext_vars, drv_vars, lazy_vars, par_vars, sum_vars, val_vars>>

InitRetrieval == RetInit /\ SimIdle /\ ChkIdle /\ ExtIdle /\ DrvIdle /\ LazyIdle /\ ParIdle /\ SumIdle /\ ValIdle

SpecRetrieval == InitRetrieval /\ [][RetNext]_vars

ChkNext ==
    \/ CallEvaluateHallucinations /\ UNCHANGED <<sim_vars, ret_vars, ext_vars, drv_vars, lazy_vars, par_vars, sum_vars, val_vars>>
    \/ CallNormalize /\ UNCHANGED <<sim_vars, ret_vars, ext_vars, drv_vars, lazy_vars, par_vars, sum_vars, val_vars>>
    \/ CallCheckGrounding /\ UNCHANGED <<sim_vars, ret_vars, ext_vars, drv_vars, lazy_vars, par_vars, sum_vars, val_vars>>
    \/ CallCheckConstraint /\ UNCHANGED <<sim_vars, ret_vars, ext_vars, drv_vars, lazy_vars, par_vars, sum_vars, val_vars>>
    \/ CallCheckConstraints /\ UNCHANGED <<sim_vars, ret_vars, ext_vars, drv_vars, lazy_vars, par_vars, sum_vars, val_vars>>
    \/ EvalExtract /\ UNCHANGED <<sim_vars, ret_vars, ext_vars, drv_vars, lazy_vars, par_vars, sum_vars, val_vars>>
    \/ EvalConstraint /\ UNCHANGED <<sim_vars, ret_vars, ext_vars, drv_vars, lazy_vars, par_vars, sum_vars, val_vars>>
    \/ EvalGrounding /\ UNCHANGED <<sim_vars, ret_vars, ext_vars, drv_vars, lazy_vars, par_vars, sum_vars, val_vars>>
    \/ EvalReturn /\ UNCHANGED <<sim_vars, ret_vars, ext_vars, drv_vars, lazy_vars, par_vars, sum_vars, val_vars>>

InitChecker == ChkInit /\ SimIdle /\ RetIdle /\ ExtIdle /\ DrvIdle /\ LazyIdle /\ ParIdle /\ SumIdle /\ ValIdle

SpecChecker == InitChecker /\ [][ChkNext]_vars

ExtNext ==
    \/ Isolate /\ UNCHANGED <<sim_vars, ret_vars, chk_vars, drv_vars, lazy_vars, par_vars, sum_vars, val_vars>>
    \/ DropLine /\ UNCHANGED <<sim_vars, ret_vars, chk_vars, drv_vars, lazy_vars, par_vars, sum_vars, val_vars>>
    \/ ParseLine /\ UNCHANGED <<sim_vars, ret_vars, chk_vars, drv_vars, lazy_vars, par_vars, sum_vars, val_vars>>
    \/ SwallowLine /\ UNCHANGED <<sim_vars, ret_vars, chk_vars, drv_vars, lazy_vars, par_vars, sum_vars, val_vars>>
    \/ ExtReturn /\ UNCHANGED <<sim_vars, ret_vars, chk_vars, drv_vars, lazy_vars, par_vars, sum_vars, val_vars>>

InitExtract == ExtInit /\ SimIdle /\ RetIdle /\ ChkIdle /\ DrvIdle /\ LazyIdle /\ ParIdle /\ SumIdle /\ ValIdle

SpecExtract == InitExtract /\ [][ExtNext]_vars

DrvNext ==
    \/ Retrieve /\ UNCHANGED <<sim_vars, ret_vars, chk_vars, ext_vars, lazy_vars, par_vars, sum_vars, val_vars>>
    \/ AdaptRequest /\ UNCHANGED <<sim_vars, ret_vars, chk_vars, ext_vars, lazy_vars, par_vars, sum_vars, val_vars>>
    \/ AdaptReturn /\ UNCHANGED <<sim_vars, ret_vars, chk_vars, ext_vars, lazy_vars, par_vars, sum_vars, val_vars>>
    \/ AdaptRaise /\ UNCHANGED <<sim_vars, ret_vars, chk_vars, ext_vars, lazy_vars, par_vars, sum_vars, val_vars>>
    \/ StageRaise /\ UNCHANGED <<sim_vars, ret_vars, chk_vars, ext_vars, lazy_vars, par_vars, sum_vars, val_vars>>
    \/ EvaluateBaseline /\ UNCHANGED <<sim_vars, ret_vars, chk_vars, ext_vars, lazy_vars, par_vars, sum_vars, val_vars>>
    \/ EvaluateGrounded /\ UNCHANGED <<sim_vars, ret_vars, chk_vars, ext_vars, lazy_vars, par_vars, sum_vars, val_vars>>
    \/ Record /\ UNCHANGED <<sim_vars, ret_vars, chk_vars, ext_vars, lazy_vars, par_vars, sum_vars, val_vars>>
    \/ Summarize /\ UNCHANGED <<sim_vars, ret_vars, chk_vars, ext_vars, lazy_vars, par_vars, sum_vars, val_vars>>
    \/ SaveResults /\ UNCHANGED <<sim_vars, ret_vars, chk_vars, ext_vars, lazy_vars, par_vars, sum_vars, val_vars>>

InitDriver == DrvInit /\ SimIdle /\ RetIdle /\ ChkIdle /\ ExtIdle /\ LazyIdle /\ ParIdle /\ SumIdle /\ ValIdle

SpecDriver == InitDriver /\ [][DrvNext]_vars

LazyNext ==
    \/ LazyNormalize /\ UNCHANGED <<sim_vars, ret_vars, ext_vars, drv_vars, par_vars, sum_vars, val_vars>>
    \/ LazyEvaluate /\ UNCHANGED <<sim_vars, ret_vars, ext_vars, drv_vars, par_vars, sum_vars, val_vars>>
    \/ LazyLoadFails /\ UNCHANGED <<sim_vars, ret_vars, ext_vars, drv_vars, par_vars, sum_vars, val_vars>>

InitLazy == LazyInit /\ SimIdle /\ RetIdle /\ ChkIdle /\ ExtIdle /\ DrvIdle /\ ParIdle /\ SumIdle /\ ValIdle

SpecLazy == InitLazy /\ [][LazyNext]_vars

ParNext ==
    \/ \E w \in Workers : ParRetrieve(w) /\ UNCHANGED <<sim_vars, ret_vars, ext_vars, drv_vars, sum_vars, val_vars>>
    \/ \E w \in Workers : ParAdapt(w) /\ UNCHANGED <<sim_vars, ret_vars, ext_vars, drv_vars, sum_vars, val_vars>>
    \/ \E w \in Workers : ParGetNlp(w) /\ UNCHANGED <<sim_vars, ret_vars, ext_vars, drv_vars, sum_vars, val_vars>>
    \/ \E w \in Workers : ParLoad(w) /\ UNCHANGED <<sim_vars, ret_vars, ext_vars, drv_vars, sum_vars, val_vars>>
    \/ \E w \in Workers : ParEvaluate(w) /\ UNCHANGED <<sim_vars, ret_vars, ext_vars, drv_vars, sum_vars, val_vars>>
    \/ \E w \in Workers : ParRecord(w) /\ UNCHANGED <<sim_vars, ret_vars, ext_vars, drv_vars, sum_vars, val_vars>>

InitParallel == ParInit /\ SimIdle /\ RetIdle /\ ChkIdle /\ ExtIdle /\ DrvIdle /\ LazyIdle /\ SumIdle /\ ValIdle

SpecParallel == InitParallel /\ [][ParNext]_vars

SumNext ==
    \/ CallComputeSummary /\ UNCHANGED <<sim_vars, ret_vars, chk_vars, ext_vars, drv_vars, lazy_vars, par_vars, val_vars>>

InitSummary == SimIdle /\ RetIdle /\ ChkIdle /\ ExtIdle /\ DrvIdle /\ LazyIdle /\ ParIdle /\ SumInit /\ ValIdle

SpecSummary == InitSummary /\ [][SumNext]_vars

ValNext ==
    \/ CallCheckGraphStructure /\ UNCHANGED <<sim_vars, ret_vars, chk_vars, ext_vars, drv_vars, lazy_vars, par_vars, sum_vars>>

InitValidate == SimIdle /\ RetIdle /\ ChkIdle /\ ExtIdle /\ DrvIdle /\ LazyIdle /\ ParIdle /\ SumIdle /\ ValInit

SpecValidate == InitValidate /\ [][ValNext]_vars

-----------------------------------------------------------------------------
(* Claims about the violation checkers, under SpecChecker *)

\* the flag one check works with
LemmaOn == EffectiveLemma(use_lemma, USE_LEMMATIZATION)

\* the positions of the extracted list whose normalized form is absent from
\* the normalized allowed set
NovelPositions ==
    {i \in 1..Len(extracted) :
        normalize_ingredient(extracted[i], LemmaOn, lemmatizer)
            \notin {normalize_ingredient(a, LemmaOn, lemmatizer) : a \in allowed}}

\* the extracted list is one the extractor can return: no two entries equal
\* after lowercasing and trimming
DistinctEntries ==
    \A i, j \in 1..Len(extracted) :
        i # j => StrStrip(StrLower(extracted[i])) # StrStrip(StrLower(extracted[j]))

\* C1 as stated: for every extracted list, also one in which two entries
\* normalize to the same form, the novel ingredients reported are the original
\* strings of exactly the entries whose normalized form is absent from the
\* normalized allowed set, count is the number of those entries, violated holds
\* iff count > 0, and extracted_count is the length of the extracted list.
\* (Stated here for the lists of distinct phrases the extractor returns.)
C1_Original ==
    (chk_op = "check_grounding_violations" /\ chk_pc = "done" /\ DistinctEntries) =>
        /\ Range(chk_result.novel_ingredients) = {extracted[i] : i \in NovelPositions}
        /\ chk_result.count = Cardinality(NovelPositions)
        /\ chk_result.violated = (chk_result.count > 0)
        /\ chk_result.extracted_count = Len(extracted)

\* the forbidden keywords of the call at hand
Keywords == IF chk_op = "check_constraint_violation" THEN forbidden ELSE MEAT_KEYWORDS

\* the keyword positions found in the lowercased text, the keyword taken as written
Hits == {i \in 1..Len(Keywords) : StrContains(StrLower(text), Keywords[i])}

\* the keyword positions found when the case of the keyword is ignored too
HitsAnyCase ==
    {i \in 1..Len(Keywords) : StrContains(StrLower(text), StrLower(Keywords[i]))}

ConstraintCallDone ==
    /\ chk_op \in {"check_constraint_violation", "check_constraint_violations"}
    /\ chk_pc = "done"

\* C2 as stated: violated holds iff some forbidden keyword occurs in the text
\* ignoring the case of both the text and the keyword, and the violations
\* list holds every matched keyword exactly once, in forbidden-list order.
C2_Original ==
    ConstraintCallDone =>
        /\ chk_result.violated = (HitsAnyCase # {})
        /\ Range(chk_result.violations) = {Keywords[i] : i \in HitsAnyCase}
        /\ \A a, b \in 1..Len(chk_result.violations) :
               a # b => chk_result.violations[a] # chk_result.violations[b]

\* C2 as amended: the text is lowercased and the keywords are searched as
\* written (they are expected in lowercase, as MEAT_KEYWORDS is); violated holds
\* iff some forbidden-list entry occurs in the lowercased text, and the
\* violations list is the forbidden list restricted to its matching entries, in
\* order, one per entry however often it occurs in the text (count is its
\* length).  For lowercase keywords this is the search ignoring case, and for a
\* duplicate-free list every matched keyword is listed exactly once.  A text
\* containing "chicken broth" with forbidden ["chicken"] gives violated and
\* ["chicken"].
C2_ConstraintAmended ==
    ConstraintCallDone =>
        /\ chk_result.violated = (Hits # {})
        /\ Len(chk_result.violations) = Cardinality(Hits)
        /\ \A k \in 1..Len(chk_result.violations) :
               chk_result.violations[k]
                   = Keywords[CHOOSE i \in Hits : Cardinality({j \in Hits : j <= i}) = k]
        /\ (chk_op = "check_constraint_violations"
               => chk_result.count = Cardinality(Hits))
        /\ ((\A i \in 1..Len(Keywords) : Keywords[i] = StrLower(Keywords[i]))
               => chk_result.violated = (HitsAnyCase # {}))
        /\ ((\A i, j \in 1..Len(Keywords) : i # j => Keywords[i] # Keywords[j])
               => \A a, b \in 1..Len(chk_result.violations) :
                      a # b => chk_result.violations[a] # chk_result.violations[b])
        /\ ((text = "Add chicken broth" /\ forbidden = <<"chicken">>)
               => chk_result.violated /\ chk_result.violations = <<"chicken">>)

\* C2 witness: an upper-case text matched by the second of two lowercase
\* keywords only
C2_Witness ==
    /\ chk_op = "check_constraint_violation"
    /\ chk_pc = "done"
    /\ text = "CHICKEN Broth and Ham"
    /\ forbidden = <<"am", "chicken">>
    /\ chk_result.violations = <<"am", "chicken">>

\* C3: evaluate_grounded runs the extraction once, then the constraint check
\* and the grounding check, both whatever the other returns, and its
\* overall_valid is NOT constraint_check.violated: a grounding violation alone
\* never makes overall_valid false.
C3_OverallValid ==
    /\ (chk_op = "evaluate_grounded" /\ chk_pc = "done") =>
        /\ calls = [extract |-> 1, constraint |-> 1, grounding |-> 1]
        /\ chk_result.extracted_ingredients = extracted
        /\ chk_result.constraint_check = check_constraint_violations(text)
        /\ chk_result.grounding_check
               = check_grounding_violations(extracted, allowed, LemmaOn, lemmatizer)
        /\ chk_result.overall_valid = ~chk_result.constraint_check.violated
    /\ (chk_op = "evaluate_grounded" /\ chk_pc = "extracted") =>
        calls = [extract |-> 1, constraint |-> 0, grounding |-> 0]
    /\ (chk_op = "evaluate_grounded" /\ chk_pc = "constraint_checked") =>
        calls = [extract |-> 1, constraint |-> 1, grounding |-> 0]
    /\ (chk_op = "evaluate_grounded" /\ chk_pc = "grounding_checked") =>
        calls = [extract |-> 1, constraint |-> 1, grounding |-> 1]

\* C3 witness: an evaluation with a grounding violation and no constraint
\* violation, valid overall
C3_Witness ==
    /\ chk_op = "evaluate_grounded"
    /\ chk_pc = "done"
    /\ chk_result.grounding_check.violated
    /\ ~chk_result.constraint_check.violated
    /\ chk_result.overall_valid

-----------------------------------------------------------------------------
(* Claims about the similarity scorer, under SpecSim *)

\* C8: jaccard_similarity(A, B) is |A \cap B| / |A \cup B| when the union is
\* non-empty and 0.0 when both sets are empty; so jaccard(A, A) = 1 for a
\* non-empty A, jaccard(A, B) = jaccard(B, A), the result lies in [0, 1] and no
\* division by zero happens (the denominator is never 0).
C8_JaccardContract ==
    sim_pc = "jaccard" =>
        LET A == ingredients1
            B == ingredients2
        IN  /\ sim_result[2] > 0
            /\ (A \cup B # {} =>
                   sim_result[1] * Cardinality(A \cup B)
                       = Cardinality(A \cap B) * sim_result[2])
            /\ (A = {} /\ B = {} => sim_result = Zero)
            /\ (A = B /\ A # {} => sim_result = One)
            /\ sim_result = jaccard_similarity(B, A)
            /\ InUnitInterval(sim_result)

\* C8 witness: two different overlapping sets were scored, giving 1/3
C8_Witness ==
    /\ sim_pc = "jaccard"
    /\ ingredients1 # ingredients2
    /\ ingredients1 \cap ingredients2 # {}
    /\ sim_result = <<1, 3>>

\* C9: combined_similarity = alpha * jaccard(I1, I2) + (1 - alpha) *
\* name_jaccard(name1, name2), name_jaccard being Jaccard over the lowercased
\* whitespace tokens of the names; with alpha = 1 it is jaccard(I1, I2), with
\* alpha = 0 it is name_jaccard, and for alpha in [0, 1] it lies in [0, 1].
C9_CombinedContract ==
    /\ sim_pc = "combined" =>
        LET j  == jaccard_similarity(ingredients1, ingredients2)
            nj == name_jaccard(Get(recipe1, "name", ""), Get(recipe2, "name", ""))
        IN  /\ sim_result[2] > 0
            /\ sim_result[1] * (alpha[2] * j[2] * nj[2])
                   = sim_result[2] * (alpha[1] * j[1] * nj[2]
                                        + (alpha[2] - alpha[1]) * nj[1] * j[2])
            /\ (alpha = One => sim_result = j)
            /\ (alpha = Zero => sim_result = nj)
            /\ (InUnitInterval(alpha) => InUnitInterval(sim_result))
    /\ sim_pc = "name_jaccard" =>
        LET n1 == Get(recipe1, "name", "")
            n2 == Get(recipe2, "name", "")
        IN  /\ (n1 = "Chicken Curry" /\ n2 = "chicken  curry" => sim_result = One)
            /\ (n1 = "Chicken Curry" /\ n2 = "Chickpea Curry" => sim_result = <<1, 3>>)
            /\ (n1 = "Chicken Curry" /\ n2 = "Curry" => sim_result = <<1, 2>>)
            /\ (n1 = "" \/ n2 = "" => sim_result = Zero)

\* C9 witness: a blend with 0 < alpha < 1 of two different similarities
C9_Witness ==
    /\ sim_pc = "combined"
    /\ alpha = <<2, 5>>
    /\ jaccard_similarity(ingredients1, ingredients2) = <<1, 3>>
    /\ Get(recipe1, "name", "") = "Chicken Curry"
    /\ Get(recipe2, "name", "") = "Curry"
    /\ sim_result = <<13, 30>>

-----------------------------------------------------------------------------
(* Claims about the retrievers, under SpecRetrieval *)

\* the corpus positions that are not the query itself, as the spec words it
NonSelf ==
    {i \in 1..Len(recipes) :
        IF mode = "id" THEN recipes[i].id # query
        ELSE NameOf(recipes[i]) # NameOf(query)}

\* C4: in both modes the returned list is sorted by score non-increasing, two
\* results of equal score keep the relative order of their recipes in the
\* corpus, and every score lies in [0, 1].
C4_SortedStable ==
    ret_pc = "done" =>
        /\ \A i, j \in 1..Len(ret_result) :
               i < j =>
                   /\ RatLeq(ret_result[j].score, ret_result[i].score)
                   /\ (ret_result[i].score = ret_result[j].score
                          => ret_result[i].pos < ret_result[j].pos)
        /\ \A i \in 1..Len(ret_result) : InUnitInterval(ret_result[i].score)

\* C4 witness: a tie returned in corpus order ahead of a lower score that
\* came earlier in the corpus
C4_Witness ==
    /\ ret_pc = "done"
    /\ Len(ret_result) >= 3
    /\ ret_result[1].score = ret_result[2].score
    /\ ret_result[1].pos < ret_result[2].pos
    /\ RatLess(ret_result[3].score, ret_result[2].score)
    /\ ret_result[3].pos < ret_result[1].pos

\* C5 as stated: for any corpus, any query and any top_k >= corpus size - 1 the
\* result has exactly corpus size - 1 entries, in id mode and in object mode
\* (where the query need not be in the corpus), and never more than top_k.
\* (Read for a non-empty corpus: an empty one has no size - 1 entries to return.)
C5_Original ==
    (ret_pc = "done" /\ recipes # <<>>) =>
        /\ (top_k >= Len(recipes) - 1 => Len(ret_result) = Len(recipes) - 1)
        /\ Len(ret_result) <= top_k

\* C5 as amended: the result has min(top_k, number of non-self candidates)
\* entries, a non-self candidate being a corpus recipe whose id differs from
\* the query id (id mode) or whose name differs from the query's name (object
\* mode); that number is corpus size - 1 in id mode, and in object mode when
\* exactly one corpus recipe bears the query's name; a top_k larger than the
\* corpus returns every non-self candidate and raises nothing; the result
\* never has more than top_k entries.
C5_LengthAmended ==
    /\ ret_pc = "done" =>
        /\ Len(ret_result) = Min(top_k, Cardinality(NonSelf))
        /\ Len(ret_result) <= top_k
        /\ (top_k > Len(recipes) => {e.pos : e \in Range(ret_result)} = NonSelf)
        /\ (mode = "id" => Cardinality(NonSelf) = Len(recipes) - 1)
        /\ (mode = "object" /\ Cardinality((1..Len(recipes)) \ NonSelf) = 1
               => Cardinality(NonSelf) = Len(recipes) - 1)
    /\ ret_pc = "raised" => \A i \in 1..Len(recipes) : recipes[i].id # query

\* C5 witness: object mode, a query that no corpus recipe is named after, and
\* a top_k beyond the corpus size: the whole corpus comes back
C5_Witness ==
    /\ ret_pc = "done"
    /\ mode = "object"
    /\ top_k > Len(recipes)
    /\ Len(recipes) >= 2
    /\ Cardinality(NonSelf) = Len(recipes)
    /\ Len(ret_result) = Len(recipes)

\* C6: the query never appears in a result (id mode: no returned id is the
\* query id; object mode: no returned recipe has the query's name), and every
\* other corpus member is scored, in corpus order: with the plain ingredient
\* Jaccard in id mode, with the combined similarity in object mode.
C6_NoSelfAllOthers ==
    /\ ret_pc = "done" =>
        \A e \in Range(ret_result) :
            IF mode = "id" THEN e.item[1] # query
            ELSE NameOf(e.item[1]) # NameOf(query)
    /\ (ret_pc = "score" /\ idx > Len(recipes)) =>
        /\ {e.pos : e \in Range(scores)} = NonSelf
        /\ \A a, b \in 1..Len(scores) : a < b => scores[a].pos < scores[b].pos
        /\ \A e \in Range(scores) :
               LET r == recipes[e.pos]
               IN  IF mode = "id"
                   THEN /\ e.item = <<r.id>>
                        /\ e.score = jaccard_similarity(get_ingredients(query_recipe[1]),
                                                        get_ingredients(r))
                   ELSE /\ e.item = <<r>>
                        /\ e.score = combined_similarity(query, r, get_ingredients(query),
                                                         get_ingredients(r), ALPHA)

\* C6 witness: the query (or a recipe of its name) is in the corpus, between
\* two candidates, and the call returned both of them
C6_Witness ==
    /\ ret_pc = "done"
    /\ Len(recipes) = 3
    /\ NonSelf = {1, 3}
    /\ Len(ret_result) = 2

\* C7, the states: a raise only for an absent id, with nothing scored or returned
C7_State ==
    /\ ret_pc = "raised" =>
        /\ mode = "id"
        /\ \A i \in 1..Len(recipes) : recipes[i].id # query
        /\ ret_error = <<"ValueError", "Recipe " \o query \o " not found">>
        /\ scores = <<>>
        /\ ret_result = <<>>
        /\ idx = 0
    /\ (mode = "id" /\ ret_pc \in {"score", "done"}) =>
        /\ \E i \in 1..Len(recipes) : recipes[i].id = query
        /\ ret_error = <<>>
    /\ (mode = "id" /\ ret_pc # "call" /\ \A i \in 1..Len(recipes) : recipes[i].id # query)
           => ret_pc = "raised"

\* C7: id-indexed retrieval raises ValueError naming the id whenever the query
\* id is absent from the corpus: before any candidate is scored, with no
\* result returned and the corpus unchanged; when the id is present no lookup
\* error is raised.
C7_LookupError == []C7_State /\ [][recipes' = recipes]_vars

\* C7 witness: the lookup failed on a non-empty corpus
C7_Witness ==
    /\ ret_pc = "raised"
    /\ Len(recipes) >= 2
    /\ query = "recipe_999"

ChickenCurry ==
    [name |-> "Chicken Curry", ingredients |-> <<"chicken", "curry powder", "onion">>]

ChickpeaCurry ==
    [name |-> "Chickpea Curry", ingredients |-> <<"chickpeas", "curry powder", "onion">>]

\* C10 as stated: query Chicken Curry, a corpus containing Chickpea Curry,
\* object mode, top_k = 1, alpha = 0.4: that recipe is returned, with score 2/5.
C10_Original ==
    (ret_pc = "done" /\ mode = "object" /\ query = ChickenCurry /\ top_k = 1
        /\ ChickpeaCurry \in Range(recipes))
    => /\ Len(ret_result) = 1
       /\ ret_result[1].item = <<ChickpeaCurry>>
       /\ ret_result[1].score = <<2, 5>>

\* C10 as amended: in that scenario Chickpea Curry is always scored
\* 0.4 * (2/4) + 0.6 * (1/3) = 2/5, and it is the recipe returned whenever no
\* other corpus recipe scores higher, or scores 2/5 too from an earlier corpus
\* position (as when it is the only other recipe of the corpus).
C10_ScenarioAmended ==
    (ret_pc = "done" /\ mode = "object" /\ query = ChickenCurry /\ top_k = 1
        /\ ChickpeaCurry \in Range(recipes))
    => LET first == CHOOSE i \in 1..Len(recipes) :
                        /\ recipes[i] = ChickpeaCurry
                        /\ \A j \in 1..Len(recipes) : recipes[j] = ChickpeaCurry => i <= j
       IN  /\ \A e \in Range(scores) : e.item = <<ChickpeaCurry>> => e.score = <<2, 5>>
           /\ \E e \in Range(scores) : e.item = <<ChickpeaCurry>>
           /\ (\A e \in Range(scores) :
                   e.item # <<ChickpeaCurry>> =>
                       \/ RatLess(e.score, <<2, 5>>)
                       \/ e.score = <<2, 5>> /\ e.pos > first)
              => ret_result = <<[item |-> <<ChickpeaCurry>>, score |-> <<2, 5>>, pos |-> first]>>

\* C10 witness: Chickpea Curry returned from a corpus that also holds a
\* lower-scoring recipe before it
C10_Witness ==
    /\ ret_pc = "done"
    /\ mode = "object"
    /\ query = ChickenCurry
    /\ top_k = 1
    /\ Len(recipes) >= 2
    /\ recipes[1] = [name |-> "Curry"]
    /\ ret_result = <<[item |-> <<ChickpeaCurry>>, score |-> <<2, 5>>, pos |-> 2]>>

-----------------------------------------------------------------------------
(* Claims about the ingredient extractor, under SpecExtract *)

\* the phrase a returned string is compared by
Key(name) == StrStrip(StrLower(name))

ExtDone == ext_pc = "done"

\* the position in the names handed to add_ingredient where a key first shows
FirstSeenAt(names, k) == Least({i \in 1..Len(names) : Key(names[i]) = k})

\* C11: the list the extractor returns holds no two strings equal after
\* lowercasing and trimming; every returned string is, letter for letter, the
\* first name of its phrase that the text produced; and the strings stand in
\* the order in which their phrases first appeared.
C11_DistinctFirstSeen ==
    ExtDone =>
        LET out == ext_result[1]
            names == ext_acc.emitted
        IN  /\ \A i, j \in 1..Len(out) : i < j => Key(out[i]) # Key(out[j])
            /\ \A k \in 1..Len(out) :
                   /\ \E i \in 1..Len(names) : Key(names[i]) = Key(out[k])
                   /\ out[k] = names[FirstSeenAt(names, Key(out[k]))]
            /\ \A k, l \in 1..Len(out) :
                   k < l => FirstSeenAt(names, Key(out[k])) < FirstSeenAt(names, Key(out[l]))

\* a phrase came twice in different casing, and another phrase after it
C11_Witness ==
    /\ ExtDone
    /\ Len(ext_result[1]) >= 2
    /\ \E i, j \in 1..Len(ext_acc.emitted) :
           /\ i < j
           /\ ext_acc.emitted[i] # ext_acc.emitted[j]
           /\ Key(ext_acc.emitted[i]) = Key(ext_acc.emitted[j])
           /\ ext_acc.emitted[i] = ext_result[1][1]

\* the four reasons the claim gives for a phrase to be left out
Unwanted(phrase) ==
    \/ phrase = ""
    \/ phrase \in GARBAGE_WORDS
    \/ Len(phrase) < 2
    \/ Len(StrSplit(phrase)) > 4

\* C20: no returned string is, lowercased and trimmed, empty, a garbage
\* word, shorter than 2 characters or longer than 4 words; and every name the
\* parser produced that is none of these is returned, itself or the earlier
\* name of the same phrase.
C20_FilterExact ==
    ExtDone =>
        LET out == ext_result[1]
            names == ext_acc.emitted
        IN  /\ \A k \in 1..Len(out) : ~Unwanted(Key(out[k]))
            /\ \A i \in 1..Len(names) :
                   ~Unwanted(Key(names[i]))
                       => \E k \in 1..Len(out) : Key(out[k]) = Key(names[i])
            /\ \A i \in 1..Len(names) :
                   (~Unwanted(Key(names[i]))
                        /\ \A j \in 1..(i - 1) : Key(names[j]) # Key(names[i]))
                       => \E k \in 1..Len(out) : out[k] = names[i]

\* the parser produced a garbage word and an over-long phrase next to a
\* phrase that was returned
C20_Witness ==
    /\ ExtDone
    /\ ext_result[1] # <<>>
    /\ \E i \in 1..Len(ext_acc.emitted) : Key(ext_acc.emitted[i]) \in GARBAGE_WORDS
    /\ \E i \in 1..Len(ext_acc.emitted) : Len(StrSplit(Key(ext_acc.emitted[i]))) > 4

\* the lines of the text, the bold markers aside
TextLines == StrSplitOn(CleanText(ext_text), "\n")

\* a line that is the "Ingredients" header, spelled as the code expects it
IsIngredientsHeader(line) == StrStrip(line) \in {"Ingredients:", "## Ingredients", "Ingredients"}

\* a line that is the header of the section that follows
IsSectionHeader(line) == StrStrip(line) \in {"Steps:", "Method:"}

\* the text has no header in other spelling (that is the matter of C13)
HeadersAsExpected ==
    \A i \in 1..Len(TextLines) :
        StrLower(StrStrip(TextLines[i])) \in {"ingredients:", "steps:"}
            => IsIngredientsHeader(TextLines[i]) \/ IsSectionHeader(TextLines[i])

\* the lines between the first "Ingredients" header and the next section
\* header or the end of the text; all lines if there is no such header
IngredientRegion ==
    LET headers == {i \in 1..Len(TextLines) : IsIngredientsHeader(TextLines[i])}
    IN  IF headers = {} THEN TextLines
        ELSE LET h == Least(headers)
                 closing == {i \in (h + 1)..Len(TextLines) : IsSectionHeader(TextLines[i])}
                             \cup {Len(TextLines) + 1}
             IN  SubSeq(TextLines, h + 1, Least(closing) - 1)

C12_Scenario ==
    "Ingredients:\n- 2 cups flour\n- 1 onion\n\nSteps:\n1. Mix flour and onion."

\* C12: with an "Ingredients" header in the text the parser is handed the
\* lines between that header and the next section header (or the end of the
\* text) and no other line; without one it is handed the lines of the whole
\* text; for the claim's example it is handed the two bullet lines.
C12_Original ==
    (ExtDone /\ HeadersAsExpected) =>
        /\ ext_acc.handed = ParseLines(NoIngredients, IngredientRegion, parser).handed
        /\ ext_text = C12_Scenario => ext_acc.handed = <<"2 cups flour", "1 onion">>

\* the header line in the spelling of the claim's example
TitleCased(line) ==
    CASE StrLower(StrStrip(line)) = "ingredients:" -> "Ingredients:"
      [] StrLower(StrStrip(line)) = "steps:" -> "Steps:"
      [] OTHER -> line

\* the text with its "Ingredients" and "Steps" header lines spelled
\* "Ingredients:" and "Steps:", every other line as it is
SameButHeaderCase(t) ==
    LET ls == StrSplitOn(t, "\n")
    IN  Join([i \in 1..Len(ls) |-> TitleCased(ls[i])], "\n")

\* C13: a text and the text that differs from it only in the letter case of
\* its "Ingredients" and "Steps" headers give the same extracted ingredients.
C13_Original ==
    ExtDone => ext_result[1] = extract_ingredients_from_text(SameButHeaderCase(ext_text), parser)

-----------------------------------------------------------------------------
(* Claims about the normalizer and its flag, under SpecChecker *)

NormalizeDone == chk_op = "normalize_ingredient" /\ chk_pc = "done"

\* normalize_ingredient with the flag and the model of the call at hand
Again(name) == normalize_ingredient(name, LemmaOn, lemmatizer)

\* inputs that differ at most in letter case and outer whitespace normalize alike
CaseAndMarginIgnored ==
    \A other \in IngredientArgs :
        Key(other) = Key(ingredient_arg) => Again(other) = chk_result[1]

\* C14 as stated: normalizing a normalized string changes nothing, with
\* lemmatization off and on, and inputs that differ only in letter case or
\* outer whitespace normalize alike.
C14_Original ==
    NormalizeDone => (Again(chk_result[1]) = chk_result[1] /\ CaseAndMarginIgnored)

\* C14: with lemmatization off normalizing a normalized string changes
\* nothing; with lemmatization on it changes nothing exactly when the model
\* answers every word of the normalized string with that word itself; in both
\* modes inputs that differ only in letter case or outer whitespace normalize
\* alike.
C14_NormalizeAmended ==
    NormalizeDone =>
        /\ ~LemmaOn => Again(chk_result[1]) = chk_result[1]
        /\ LemmaOn =>
               (Again(chk_result[1]) = chk_result[1]
                    <=> \A token \in Range(StrSplit(chk_result[1])) :
                            LemmaOf(lemmatizer, token) = token)
        /\ CaseAndMarginIgnored

\* a lemmatizing call changed the phrase, and another spelling of the input exists
C14_Witness ==
    /\ NormalizeDone
    /\ LemmaOn
    /\ chk_result[1] # Key(ingredient_arg)
    /\ Again(chk_result[1]) = chk_result[1]
    /\ \E other \in IngredientArgs : other # ingredient_arg /\ Key(other) = Key(ingredient_arg)

\* the flag the claim gives a check: the argument, the toggle when it is omitted
ClaimedFlag == IF use_lemma = <<>> THEN USE_LEMMATIZATION ELSE use_lemma[1]

\* the grounding check of the call at hand, once it is made
GroundingMade ==
    IF chk_op = "check_grounding_violations" /\ chk_pc = "done" THEN <<chk_result>>
    ELSE IF chk_op = "evaluate_grounded" /\ chk_pc \in {"grounding_checked", "done"}
         THEN <<grounding_result>>
         ELSE <<>>

\* C15: normalize_ingredient without a flag works as with the toggle's value,
\* with a flag as that flag says whatever the toggle; and a grounding check
\* normalizes every extracted and every allowed ingredient under that one
\* flag: it is violated iff some extracted ingredient so normalized is no
\* allowed ingredient so normalized, and the novel ingredients it lists are,
\* so normalized, exactly those.
C15_LemmaFlag ==
    LET Norm(name) == normalize_ingredient(name, ClaimedFlag, lemmatizer)
        allowed_forms == {Norm(a) : a \in allowed}
        novel_forms == {Norm(extracted[i]) : i \in 1..Len(extracted)} \ allowed_forms
    IN  /\ NormalizeDone => chk_result[1] = Norm(ingredient_arg)
        /\ GroundingMade # <<>> =>
               /\ GroundingMade[1].violated <=> novel_forms # {}
               /\ {Norm(n) : n \in Range(GroundingMade[1].novel_ingredients)} = novel_forms

\* a check made with an explicit flag against the toggle, where the flag
\* decides the verdict
C15_Witness ==
    /\ GroundingMade # <<>>
    /\ use_lemma = <<TRUE>>
    /\ ~USE_LEMMATIZATION
    /\ ~GroundingMade[1].violated
    /\ check_grounding_violations(extracted, allowed, FALSE, lemmatizer).violated

-----------------------------------------------------------------------------
(* Claims about the hallucination evaluation, under SpecChecker *)

HallucinationsDone == chk_op = "evaluate_hallucinations" /\ chk_pc = "done"

\* the lowercased ingredient names of the source recipes given
SourceNames ==
    UNION {{StrLower(ing.name) : ing \in Range(source_recipes[i].graph.ingredients)} :
               i \in 1..Len(source_recipes)}

\* the substitutes the evaluation allows under the constraint given
SubstituteNames ==
    UNION {Range(AllowedSubsFor(constraint)[k]) : k \in DOMAIN AllowedSubsFor(constraint)}

\* C16: the evaluation finds the text consistent iff at least one ingredient
\* of the source recipes or one allowed substitute occurs in the lowercased
\* text, and it reports a hallucination iff the constraint is violated or the
\* text is not consistent.
C16_Hallucination ==
    HallucinationsDone =>
        /\ chk_result.ingredient_consistency.consistent
               <=> \E ing \in SourceNames \cup SubstituteNames :
                       StrContains(StrLower(text), ing)
        /\ chk_result.has_hallucination
               <=> (chk_result.constraint_violation.violated
                        \/ ~chk_result.ingredient_consistency.consistent)

\* a text with no source ingredient in it that is consistent by a substitute
\* and breaks no constraint
C16_Witness ==
    /\ HallucinationsDone
    /\ source_recipes # <<>>
    /\ \A ing \in SourceNames : ~StrContains(StrLower(text), ing)
    /\ chk_result.ingredient_consistency.consistent
    /\ ~chk_result.has_hallucination

-----------------------------------------------------------------------------
(* Claims about the adaptations and the ablation driver, under SpecDriver *)

\* an adaptation is about to be called
AdaptCalled == drv_pc \in {"baseline", "grounded"}

\* an adaptation has sent its request and waits for the service
AdaptPending == drv_pc \in {"baseline_wait", "grounded_wait"}

\* C17: each call of baseline_adapt or grounded_adapt sends exactly one
\* request (one message, the model asked for) and no step apart from a call
\* sends any, so nothing is retried; when the service answers, the call
\* returns the answer's text exactly as it came, the empty text included;
\* when the service fails, the call returns nothing and the failure reaches
\* the caller, whose handler records its message.
C17_OneRequestUnmodified ==
    [][ /\ AdaptCalled =>
             /\ Len(requests') = Len(requests) + 1
             /\ SubSeq(requests', 1, Len(requests)) = requests
             /\ Len(requests'[Len(requests')].messages) = 1
             /\ requests'[Len(requests')].model = MODEL
        /\ ~AdaptCalled => requests' = requests
        /\ (AdaptPending /\ drv_pc' \in {"grounded", "evaluate_baseline"}) =>
             /\ response' # <<>>
             /\ response'[1].message.content \in Responses
             /\ IF drv_pc = "baseline_wait"
                THEN output_baseline' = <<response'[1].message.content>>
                ELSE output_grounded' = <<response'[1].message.content>>
        /\ (AdaptPending /\ drv_pc' \notin {"grounded", "evaluate_baseline"}) =>
             /\ output_baseline' = output_baseline
             /\ output_grounded' = output_grounded
             /\ Len(results') = Len(results) + 1
             /\ "error" \in DOMAIN results'[Len(results')]
             /\ results'[Len(results')].error \in ServiceErrors
      ]_vars

\* the second example reaches evaluation with a full and an empty answer
\* passed through, after the first example's generation failed
C17_Witness ==
    /\ drv_pc = "evaluate_baseline"
    /\ example = 2
    /\ "error" \in DOMAIN results[1]
    /\ results[1].error \in ServiceErrors
    /\ output_baseline = <<"Ingredients:\n- tofu\n- ham\n\nSteps:\nFry.\n">>
    /\ output_grounded = <<"">>
    /\ Len(requests) \in {3, 4}

\* the loop of run_single_experiment is over
LoopOver == drv_pc \in {"summarize", "save", "done"}

\* run_single_experiment has returned
Returned == drv_pc \in {"save", "done"}

ErrorFields == {"example_id", "base_recipe", "error"}

RecordFields == {"example_id", "base_recipe", "retrieved_recipes", "allowed_ingredients",
                 "baseline", "grounded"}

\* the positions of the results without an error
ValidAt == {j \in 1..Len(results) : "error" \notin DOMAIN results[j]}

\* C18: a failure on one example never ends the batch.  The result list
\* grows by one entry per example, in input order, entry j numbered j and
\* naming the j-th test example; an entry is either a full record or an
\* entry with example_id and error; once the loop is over there is one entry
\* per test example, and the summary returned is None exactly when every
\* entry has an error, otherwise it counts only the entries without one.
C18_BatchSurvives ==
    /\ Len(results) <= Len(test_bases)
    /\ \A j \in 1..Len(results) :
           /\ results[j].example_id = j
           /\ results[j].base_recipe.name = test_bases[j].name
           /\ DOMAIN results[j] \in {ErrorFields, RecordFields}
           /\ "error" \in DOMAIN results[j] =>
                  results[j].error \in ServiceErrors \cup {StageError("retrieve"),
                                                        StageError("evaluate_baseline")}
    /\ (~LoopOver /\ drv_pc # "idle") => Len(results) = example - 1
    /\ LoopOver => Len(results) = Len(test_bases)
    /\ Returned =>
           IF ValidAt = {} THEN summary = <<>>
           ELSE /\ summary # <<>>
                /\ summary[1].num_examples = Cardinality(ValidAt)
                /\ \A s \in {"baseline", "grounded"} :
                       summary[1][s].grounding_violation_count =
                           Cardinality({j \in ValidAt :
                               results[j][s].evaluation.grounding_check.violated})

\* the first example failed, the second went through with an ingredient that
\* is not allowed, and the summary counts the second only
C18_Witness ==
    /\ drv_pc = "done"
    /\ Len(results) = 2
    /\ "error" \in DOMAIN results[1]
    /\ "error" \notin DOMAIN results[2]
    /\ summary # <<>>
    /\ summary[1].num_examples = 1
    /\ summary[1].baseline.grounding_violation_count = 1

ClaimedStrategyFields ==
    {"violation_count", "violation_rate", "grounding_violation_count",
     "grounding_violation_rate", "avg_novel_ingredients"}

StrategyFields ==
    {"constraint_violation_count", "constraint_violation_rate",
     "grounding_violation_count", "grounding_violation_rate", "avg_novel_ingredients"}

\* C19 as stated: every object written has the fields metadata, summary and
\* results, and each per-strategy summary has exactly the fields
\* violation_count, violation_rate, grounding_violation_count,
\* grounding_violation_rate and avg_novel_ingredients.
C19_Original ==
    \A n \in 1..Len(sink) :
        /\ DOMAIN sink[n] = {"metadata", "summary", "results"}
        /\ sink[n].summary # <<>> =>
               \A s \in {"baseline", "grounded"} :
                   DOMAIN sink[n].summary[1][s] = ClaimedStrategyFields

\* C19 amended: every object written has the fields metadata, summary and
\* results; the summary is None when no example went through, and otherwise
\* has num_examples, baseline and grounded, each per-strategy summary with
\* exactly the fields constraint_violation_count, constraint_violation_rate,
\* grounding_violation_count, grounding_violation_rate and
\* avg_novel_ingredients.
C19_SinkFields ==
    \A n \in 1..Len(sink) :
        /\ DOMAIN sink[n] = {"metadata", "summary", "results"}
        /\ DOMAIN sink[n].metadata = {"timestamp", "config"}
        /\ sink[n].results = results
        /\ (sink[n].summary = <<>>) <=> (ValidAt = {})
        /\ sink[n].summary # <<>> =>
               /\ DOMAIN sink[n].summary[1] = {"num_examples", "baseline", "grounded"}
               /\ \A s \in {"baseline", "grounded"} :
                      DOMAIN sink[n].summary[1][s] = StrategyFields

\* an object with a summary has been written
C19_Witness ==
    /\ drv_pc = "done"
    /\ Len(sink) = 1
    /\ sink[1].summary # <<>>
    /\ sink[1].summary[1].grounded.constraint_violation_count = 1

-----------------------------------------------------------------------------
(* Claims about parser failures, under SpecExtract *)

\* the line at hand reaches the parser and the parser raises on it
ParserFails ==
    /\ ext_pc = "lines"
    /\ line_no <= Len(lines)
    /\ LineForParser(lines[line_no]) # <<>>
    /\ parse_ingredient(parser, LineForParser(lines[line_no])[1]).raised

\* the lines of the call that the parser does not raise on
LinesWithoutFailure ==
    SelectSeq(lines, LAMBDA l :
        \/ LineForParser(l) = <<>>
        \/ ~parse_ingredient(parser, LineForParser(l)[1]).raised)

\* the lines of the call that reach the parser
LinesHanded == SelectSeq(lines, LAMBDA l : LineForParser(l) # <<>>)

\* C21: a parser failure on a line is swallowed.  The step that meets it
\* leaves the collected ingredients as they were and goes on to the next
\* line; the call always returns, every line that reaches the parser has
\* been handed to it by then, and the list returned is the one the same text
\* gives with the failing lines left out.
C21_FailureSwallowed ==
    /\ [][ ParserFails =>
             /\ ext_acc'.ingredients = ext_acc.ingredients
             /\ ext_acc'.seen = ext_acc.seen
             /\ ext_acc'.swallowed = ext_acc.swallowed + 1
             /\ line_no' = line_no + 1
             /\ ext_pc' = "lines" ]_vars
    /\ [](ext_pc = "done" =>
             /\ ext_result # <<>>
             /\ Len(ext_acc.handed) = Len(LinesHanded)
             /\ ext_result[1] =
                    ParseLines(NoIngredients, LinesWithoutFailure, parser).ingredients)
    /\ [](ext_pc \in {"call", "lines", "done"})

\* the call returned after the parser failed on a line between two lines that
\* gave an ingredient each
C21_Witness ==
    /\ ext_pc = "done"
    /\ ext_acc.swallowed = 1
    /\ ext_acc.handed = <<"1 onion", "salt to taste", "2 cups flour">>
    /\ ext_result = <<<<"onion", "flour">>>>

-----------------------------------------------------------------------------
(* Claims about the prompts, under SpecDriver *)

AllowedHeader == "ALLOWED INGREDIENTS (use ONLY these):\n"

\* the text a prompt shows between the ALLOWED INGREDIENTS header and the
\* blank line before TASK
AllowedText(prompt) ==
    LET from == Least({i \in 1..Len(prompt) : StartsAt(prompt, i, AllowedHeader)})
                    + Len(AllowedHeader)
        to == Least({i \in from..Len(prompt) : StartsAt(prompt, i, "\n\nTASK:")})
    IN  SubSeq(prompt, from, to - 1)

\* the entries of that text, which separates them by a comma and a blank
AllowedShown(prompt) ==
    LET pieces == StrSplitOn(AllowedText(prompt), ",")
    IN  IF AllowedText(prompt) = "" THEN <<>>
        ELSE [k \in 1..Len(pieces) |->
                 IF k = 1 THEN pieces[k] ELSE SubSeq(pieces[k], 2, Len(pieces[k]))]

\* the recipes of the retrieval result at hand
RetrievedRecipes == [i \in 1..Len(retrieved) |-> retrieved[i].item[1]]

\* the prompt the step at hand sends
PromptSent == requests'[Len(requests')].messages[1].content

\* C22: the prompt grounded_adapt sends lists, under ALLOWED INGREDIENTS,
\* exactly the ingredients of the retrieved recipes lowercased and trimmed,
\* each once, in ascending order; the prompt baseline_adapt sends has no such
\* list; both show the same query recipe, the same retrieved-recipe context
\* and the same constraint.
C22_AllowedList ==
    [][ AdaptCalled =>
          /\ StrContains(PromptSent, format_query_recipe(test_bases[example]))
          /\ StrContains(PromptSent, format_retrieved_context(RetrievedRecipes))
          /\ StrContains(PromptSent,
                         "TASK: Adapt the original recipe to be " \o CONSTRAINT \o ".")
          /\ IF drv_pc = "grounded"
             THEN LET shown == AllowedShown(PromptSent)
                  IN  /\ Range(shown) =
                             UNION {{StrStrip(StrLower(ing)) : ing \in Range(rec.ingredients)} :
                                        rec \in Range(RetrievedRecipes)}
                      /\ \A i, j \in 1..Len(shown) : i < j => StrLess(shown[i], shown[j])
             ELSE ~StrContains(PromptSent, "ALLOWED INGREDIENTS")
      ]_vars

\* a grounded request has been sent whose list merges two recipes that share
\* an ingredient and spell others with capitals and a leading blank
C22_Witness ==
    /\ drv_pc = "grounded_wait"
    /\ Len(retrieved) = 2
    /\ AllowedShown(requests[Len(requests)].messages[1].content)
           = <<"chickpeas", "curry powder", "onion", "tofu">>
    /\ ~StrContains(requests[Len(requests) - 1].messages[1].content, "ALLOWED INGREDIENTS")

-----------------------------------------------------------------------------
(* Claims about the order of the driver's steps, under SpecDriver *)

\* the steps of one example in the order the claim gives them
StepRank ==
    [retrieve |-> 1, baseline |-> 2, baseline_wait |-> 3, grounded |-> 4,
     grounded_wait |-> 5, evaluate_baseline |-> 6, evaluate_grounded |-> 7, record |-> 8]

\* the driver is at a step of the example at hand
InExample == drv_pc \in DOMAIN StepRank

\* C23: the driver works on one example at a time, in the order retrieval,
\* baseline generation, grounded generation, baseline evaluation, grounded
\* evaluation, record.  Within an example every step is the next one of that
\* order; a generation is only under way once this example's retrieval and
\* allowed set are there; an evaluation only once both generations have
\* returned; both evaluations are made against the allowed set of this
\* example's retrieval; and the next example is only taken up in the step
\* that appends the current example's entry.
C23_FixedOrder ==
    /\ [][ /\ (InExample /\ example' = example) =>
                 /\ drv_pc' \in DOMAIN StepRank
                 /\ StepRank[drv_pc'] = StepRank[drv_pc] + 1
                 /\ results' = results
           /\ example' # example =>
                 /\ InExample
                 /\ example' = example + 1
                 /\ Len(results') = Len(results) + 1
                 /\ results'[Len(results')].example_id = example
                 /\ drv_pc' = IF example' <= Len(test_bases) THEN "retrieve" ELSE "summarize"
         ]_vars
    /\ [](InExample =>
             /\ Len(results) = example - 1
             /\ StepRank[drv_pc] >= 2 =>
                    /\ retrieved = retrieve_similar_recipes(test_bases[example], corpus,
                                                            drv_top_k)
                    /\ drv_allowed = <<extract_allowed_ingredients(retrieved)>>
             /\ StepRank[drv_pc] \in 2..3 => output_baseline = <<>>
             /\ StepRank[drv_pc] \in 2..5 => output_grounded = <<>>
             /\ StepRank[drv_pc] \in 2..6 => eval_baseline = <<>>
             /\ StepRank[drv_pc] \in 2..7 => eval_grounded = <<>>
             /\ StepRank[drv_pc] >= 6 => (output_baseline # <<>> /\ output_grounded # <<>>)
             /\ StepRank[drv_pc] = 8 =>
                    /\ eval_baseline =
                           <<evaluate_grounded(output_baseline[1],
                                               extract_allowed_ingredients(retrieved),
                                               USE_LEMMATIZATION, lemmatizer, parser)>>
                    /\ eval_grounded =
                           <<evaluate_grounded(output_grounded[1],
                                               extract_allowed_ingredients(retrieved),
                                               USE_LEMMATIZATION, lemmatizer, parser)>>)

\* the second example is about to be recorded after the first one was
C23_Witness ==
    /\ drv_pc = "record"
    /\ example = 2
    /\ Len(results) = 1
    /\ "error" \notin DOMAIN results[1]
    /\ Len(requests) = 4
    /\ eval_baseline # eval_grounded

-----------------------------------------------------------------------------
(* Claims about the recipes of a run, under SpecDriver *)

\* C24: no step of a run changes a recipe: the test recipes and the corpus,
\* contents and order, stay as they were loaded through retrieval, allowed-set
\* extraction, prompt construction, evaluation and record building, for every
\* sequence of examples; and what a record shows of its base recipe is that
\* recipe as loaded.
C24_RecipesNeverMutated ==
    /\ [][test_bases' = test_bases /\ corpus' = corpus]_vars
    /\ [](drv_pc # "idle" =>
             /\ corpus = TargetCorpus
             /\ \A j \in 1..Len(results) :
                    /\ results[j].base_recipe.name = test_bases[j].name
                    /\ results[j].base_recipe.ingredients = test_bases[j].ingredients)

\* two examples went through every step, one of them with a retrieval result
\* whose order is not the corpus order
C24_Witness ==
    /\ drv_pc = "done"
    /\ Len(results) = 2
    /\ \A j \in 1..2 : "error" \notin DOMAIN results[j]
    /\ \E j \in 1..2 : results[j].retrieved_recipes[1].name = corpus[2].name
    /\ corpus = TargetCorpus

-----------------------------------------------------------------------------
(* Claims about the process-wide state of the checker, under SpecLazy *)

\* call k ran the lemmatizer: normalize_ingredient was reached with an
\* effective use_lemma of true and the model was there or could be loaded
Lemmatized(k) ==
    call_log[k].lemma /\ call_log[k].normalized_any /\ ~call_log[k].failed

-----------------------------------------------------------------------------
(* Claims about the independence of the records, under SpecParallel *)

\* the record of the example base worked on alone, from start to end
RecordAlone(base) ==
    LET retrieved_ == retrieve_similar_recipes(base, ParCorpus, TOP_K)
        recipes_ == [i \in 1..Len(retrieved_) |-> retrieved_[i].item[1]]
        allowed_ == extract_allowed_ingredients(retrieved_)
        Output(strategy_) ==
            service[ChatRequest(strategy_, base, recipes_, CONSTRAINT, MODEL)
                        .messages[1].content]
        Eval(output) == evaluate_grounded(output, allowed_, USE_LEMMATIZATION,
                                          lemmatizer, parser)
    IN  RecordOf(base, retrieved_, Output("baseline"), Output("grounded"),
                 Eval(Output("baseline")), Eval(Output("grounded")))

\* C26: with a service that answers by the prompt alone, the record of an
\* example (everything but its example_id) is the one the example gives when
\* worked on alone, under every interleaving of the workers' steps, those in
\* which two workers both find the model handle unset and both load a model
\* included.
C26_RecordsIndependent ==
    \A w \in DOMAIN par_record :
        par_record[w] # <<>> => par_record[w] = <<RecordAlone(par_base[w])>>

\* both workers done after each loaded a model, on different examples, with
\* an evaluation that the lemmatizer decides
C26_Witness ==
    /\ par_pc = [w \in Workers |-> "done"]
    /\ loads = 2
    /\ par_base["w1"] # par_base["w2"]
    /\ \E w \in Workers :
           /\ par_record[w][1].baseline.evaluation.grounding_check.count = 1
           /\ par_record[w][1].baseline.output # ""

-----------------------------------------------------------------------------
(* Claims about the summary, under SpecSummary *)

\* the records of the call in which the check named of strategy s is violated
ViolatedIn(s, check) ==
    SelectSeq(sum_records, LAMBDA r : r[s].evaluation[check].violated)

RECURSIVE NovelTotal(_, _)
\* the novel ingredients of strategy s over the first k records of the call
NovelTotal(s, k) ==
    IF k = 0 THEN 0
    ELSE NovelTotal(s, k - 1) + sum_records[k][s].evaluation.grounding_check.count

\* p is the fraction a / n
IsFraction(p, a, n) == p[2] > 0 /\ p[1] * n = a * p[2]

\* C27: compute_summary aggregates exactly the records given: for the empty
\* list it returns None; otherwise num_examples is n and, for each strategy,
\* the two counts are the numbers of records whose constraint_check and
\* grounding_check are violated, each rate is its count over n, and
\* avg_novel_ingredients is the sum of grounding_check.count over n; so every
\* count lies in 0..n, every rate in [0, 1], and avg_novel_ingredients is not
\* below grounding_violation_rate.
C27_SummaryAggregates ==
    sum_pc = "done" =>
        LET n == Len(sum_records)
        IN  IF n = 0 THEN sum_result = <<>>
            ELSE /\ sum_result # <<>>
                 /\ sum_result[1].num_examples = n
                 /\ \A s \in {"baseline", "grounded"} :
                        LET of == sum_result[1][s]
                        IN  /\ of.constraint_violation_count
                                   = Len(ViolatedIn(s, "constraint_check"))
                            /\ of.grounding_violation_count
                                   = Len(ViolatedIn(s, "grounding_check"))
                            /\ IsFraction(of.constraint_violation_rate,
                                          of.constraint_violation_count, n)
                            /\ IsFraction(of.grounding_violation_rate,
                                          of.grounding_violation_count, n)
                            /\ IsFraction(of.avg_novel_ingredients, NovelTotal(s, n), n)
                            /\ of.constraint_violation_count \in 0..n
                            /\ of.grounding_violation_count \in 0..n
                            /\ InUnitInterval(of.constraint_violation_rate)
                            /\ InUnitInterval(of.grounding_violation_rate)
                            /\ RatLeq(of.grounding_violation_rate, of.avg_novel_ingredients)

\* a summary of two records, one of which has two novel ingredients, so that
\* the average is above the rate
C27_Witness ==
    /\ sum_pc = "done"
    /\ Len(sum_records) = 2
    /\ sum_result[1].baseline.grounding_violation_count = 1
    /\ sum_result[1].baseline.avg_novel_ingredients = One
    /\ sum_result[1].grounded.constraint_violation_rate = Rat(1, 2)

\* compute_summary was called on the empty list and returned None
C27_WitnessEmpty ==
    sum_pc = "done" /\ sum_records = <<>> /\ sum_result = <<>>

-----------------------------------------------------------------------------
(* Claims about the validator, under SpecValidate *)

\* the ids of the nodes named kind ("actions", "ingredients") of the recipe given
NodeIds(kind) ==
    {val_recipe.graph[kind][i].id : i \in DOMAIN val_recipe.graph[kind]}

\* the RecipeGraph invariant: every edge runs from an action to an ingredient
\* and has the role input or output
GraphWellFormed ==
    \A i \in DOMAIN val_recipe.graph.edges :
        LET edge == val_recipe.graph.edges[i]
        IN  /\ edge.source \in NodeIds("actions")
            /\ edge.target \in NodeIds("ingredients")
            /\ edge.role \in {"input", "output"}

\* C28: check_graph_structure returns no issues for a recipe iff every edge's
\* source is an action id, every edge's target is an ingredient id and every
\* edge's role is input or output; an edge whose source or target names no
\* node at all is reported too.
C28_Original ==
    val_pc = "done" => (val_issues = <<>> <=> GraphWellFormed)

\* what the code does ensure: a recipe that satisfies the invariant gets no
\* issues (node ids of the two kinds being distinct)
C28_NoFalseIssue ==
    (val_pc = "done" /\ GraphWellFormed) => val_issues = <<>>

\* a well-formed graph with an edge was validated
C28_Witness ==
    /\ val_pc = "done"
    /\ GraphWellFormed
    /\ val_recipe.graph.edges # <<>>

\* an edge from an id of no node passed the validator
C28_DanglingAccepted ==
    /\ val_pc = "done"
    /\ val_issues = <<>>
    /\ \E i \in DOMAIN val_recipe.graph.edges :
           val_recipe.graph.edges[i].source \notin NodeIds("actions") \cup NodeIds("ingredients")

-----------------------------------------------------------------------------
(* Claims about retrieval for different top_k, under SpecRetrieval *)

\* the first k entries of the result returned, or all of them if there are fewer
FirstOfResult(k) ==
    [i \in 1..(IF k < Len(ret_result) THEN k ELSE Len(ret_result)) |-> ret_result[i]]

\* C29: retrieval is prefix-monotone in top_k: for the same query and corpus
\* and any 0 <= k1 <= k2, the result for top_k = k1 is exactly the first k1
\* entries (all entries, if there are fewer) of the result for top_k = k2, and
\* the allowed ingredients derived for k1 are among those derived for k2.
C29_PrefixMonotone ==
    (mode = "object" /\ ret_pc = "done") =>
        \A k1 \in 0..top_k :
            /\ retrieve_similar_recipes(query, recipes, k1) = FirstOfResult(k1)
            /\ extract_allowed_ingredients(retrieve_similar_recipes(query, recipes, k1))
                   \subseteq extract_allowed_ingredients(ret_result)

\* three recipes were retrieved in an order other than the corpus order, and
\* the best one alone allows fewer ingredients than the three together
C29_Witness ==
    /\ mode = "object"
    /\ ret_pc = "done"
    /\ top_k = 3
    /\ Len(ret_result) = 3
    /\ ret_result[1].item[1] # recipes[1]
    /\ extract_allowed_ingredients(retrieve_similar_recipes(query, recipes, 1))
           # extract_allowed_ingredients(ret_result)

-----------------------------------------------------------------------------
(* Claims about the two allowed sets of an example, under SpecDriver *)

\* the ALLOWED INGREDIENTS of the grounded prompt for the recipes retrieved
Whitelist == gen_extract_allowed_ingredients(RetrievedRecipes)

\* models the checker may have loaded, one of them with lemmas for the corpus
WhitelistLemmatizers ==
    Lemmatizers \cup {[t \in {"chickpeas", "powder"} |->
                          IF t = "chickpeas" THEN "chickpea" ELSE "powd"]}

\* C30: the whitelist shown to the model and the allowed set of the checker
\* agree: every ingredient of the grounded prompt's list is accepted by
\* check_grounding_violations against the driver's allowed set, with
\* lemmatization on or off, so an output that copies its ingredients from the
\* list is never a grounding violation; and the two sets are equal after
\* normalization.
C30_WhitelistAccepted ==
    (drv_pc \in {"baseline", "baseline_wait", "grounded", "grounded_wait",
                 "evaluate_baseline", "evaluate_grounded", "record"}) =>
        /\ drv_allowed # <<>>
        /\ \A lemma_on \in BOOLEAN, lem \in WhitelistLemmatizers :
               /\ \A ing \in Whitelist :
                      ~check_grounding_violations(<<ing>>, drv_allowed[1], lemma_on, lem).violated
               /\ check_grounding_violations(Sorted(Whitelist), drv_allowed[1],
                                             lemma_on, lem).count = 0
               /\ normalize_ingredient_set(Whitelist, lemma_on, lem)
                      = normalize_ingredient_set(drv_allowed[1], lemma_on, lem)

\* the grounded prompt of an example is due, and its list shows an ingredient
\* trimmed that the driver's allowed set holds untrimmed
C30_Witness ==
    /\ drv_pc = "grounded"
    /\ drv_allowed # <<>>
    /\ "tofu" \in Whitelist
    /\ "tofu" \notin drv_allowed[1]
    /\ " tofu" \in drv_allowed[1]

====
